---- MODULE Spec2Model ----
(***************************************************************************)
(* SiteScribe: the rate-limited screenshot queue (captureManager.js), the  *)
(* page monitor (pageMonitor.js) and the auto-capture flow of the          *)
(* background script.                                                      *)
(*                                                                         *)
(* The runtime is a single-threaded event loop: every action below is one  *)
(* synchronous run of JavaScript, from an event (a call, a timer firing, a *)
(* promise settling) up to the next await.  Times are in milliseconds.     *)
(***************************************************************************)
EXTENDS Integers, Sequences, FiniteSets, TLC

\* ---------------------------------------------------------------- bounds
\* number of capture() calls the environment makes on the queue
MaxReq == 3
\* scheduling jitter, in ms, of calls, timers and replies
MaxDelta == 1
\* Date.now() at construction (any value above minDelay behaves alike)
StartTime == 5000
\* number of environment events in one run of the monitor: the load-complete
\* events, each starting one auto-capture flow, and the external calls that
\* fail, time out or find the tab changed
MaxEvents == 2
\* number of tabs
MaxTabs == 2
\* the page heights the agent reports, in scroll steps
MaxSteps == 1
\* number of captures requested from the popup
MaxCaptures == 11
\* number of scripts in a page's answer to getContent
MaxScripts == 3
\* number of runs of the capture diagnostics
MaxDiagnostics == 1
\* number of fetchScriptContent calls
MaxCalls == 3
\* number of times the script cache is cleared
MaxClears == 1
\* number of startNetworkMonitoring and stopNetworkMonitoring calls
MaxToggles == 4
\* length of the hostnames handed to parseUrl
MaxHostLen == 5
\* length of the pathnames handed to parseUrl, after their first '/'
MaxPathLen == 3

\* ----------------------------------------------------- program constants
minDelay == 1000
renderTimeout == 5000
scrollInterval == 500
minScrollStep == 200
DefaultHeight == 5000
DimensionsTimeout == 5000
DebounceDelay == 2000
MAX_RECENT_CAPTURES == 10

Max(a, b) == IF a >= b THEN a ELSE b

\* The delays the environment chooses from: none, jitter, just short of the
\* rate limit and the rate limit itself.
Delays == (0..MaxDelta) \cup {minDelay - 1, minDelay}

VARIABLES
  queue,        \* screenshotRateLimit.queue: the pending entries, by request
  processing,   \* screenshotRateLimit.processing
  lastCapture,  \* screenshotRateLimit.lastCapture
  now,          \* Date.now()
  reqs,         \* the promises returned by capture(), in call order
  loops,        \* the invocations of process(), one per capture() call
  actionLog,    \* the chrome.tabs.captureVisibleTab calls made so far
  settleLog,    \* the requests in the order their promises settled
  impl,         \* which of the two shipped pageMonitor sources is loaded
  pages,        \* the session objects startMonitoring has created
  activePages,  \* pageMonitor.activePages: tab -> its session object, 0 if none
  captureTimeouts, \* captureTimeouts: tab -> the flow whose timer is stored, 0 if none
  flows,        \* the runs of the tabs.onUpdated listener, in event order
  recentCaptures, \* recentCaptures, newest first
  faults,       \* the external calls that have failed so far
  cap,          \* the captureWebsite call followed step by step
  lib           \* the utility modules: the URL being parsed and its results,
                \* the script cache and its calls, the network monitor

qvars == <<queue, processing, lastCapture, reqs, loops, actionLog, settleLog>>
mvars == <<impl, pages, activePages, captureTimeouts, flows,
           recentCaptures, faults, cap, lib>>
vars == <<queue, processing, lastCapture, now, reqs, loops, actionLog, settleLog,
          impl, pages, activePages, captureTimeouts, flows,
          recentCaptures, faults, cap, lib>>

\* ------------------------------------------------------------- the queue
\* process(): `if (this.processing || this.queue.length === 0) return;`
processReturnsEarlyNoFlag(p, q) == Len(q) = 0
processReturnsEarly(p, q) == p \/ Len(q) = 0

\* process(): `while (this.queue.length > 0)`
loopConditionOffByOne(q) == Len(q) > 1
loopCondition(q) == Len(q) > 0

\* process(): `Math.max(0, this.lastCapture + this.minDelay - now)`
timeToWait(lc, t) == Max(0, lc + minDelay - t)

\* process(): `this.queue.shift()`
shiftFromTail(q) == [entry |-> q[Len(q)], rest |-> SubSeq(q, 1, Len(q) - 1)]
shift(q) == [entry |-> Head(q), rest |-> Tail(q)]

\* capture(): `this.queue.push({ resolve, reject })`
push(q, r) == Append(q, r)

\* process(): `this.lastCapture = Date.now()` is the statement after the
\* await inside the try block: it runs when the call resolved and is skipped
\* when the call rejected.
lastCaptureAfter(ok, lc, t) == IF ok THEN t ELSE lc

\* process(): `resolve(screenshot)` in the try block, `reject(error)` in the
\* catch block.  A value is identified by the call that produced it.
settlementSwallowsError(ok, call) ==
  IF ok THEN [state |-> "resolved", value |-> call]
        ELSE [state |-> "resolved", value |-> 0]
settlement(ok, call) ==
  [state |-> IF ok THEN "resolved" ELSE "rejected", value |-> call]

Returned == [pc |-> "returned", cur |-> 0, wakeAt |-> 0]

\* The statements of one loop pass from `const { resolve, reject } =
\* this.queue.shift()` to the await of captureVisibleTab.  Destructuring the
\* undefined that shift() returns on an empty array throws outside the try
\* block: the invocation dies and `processing` stays as it is.
StartAction(q, t, log) ==
  IF Len(q) = 0
  THEN [queue |-> q, loop |-> [pc |-> "crashed", cur |-> 0, wakeAt |-> 0],
        log |-> log, processing |-> TRUE]
  ELSE [queue |-> shift(q).rest,
        loop |-> [pc |-> "capture", cur |-> shift(q).entry, wakeAt |-> 0],
        log |-> Append(log, [req |-> shift(q).entry, start |-> t,
                             end |-> 0, state |-> "running"]),
        processing |-> TRUE]

\* process() from the test of the while loop to its next await or its return.
Iterate(q, lc, t, log) ==
  IF ~loopCondition(q)
  THEN [queue |-> q, loop |-> Returned, log |-> log, processing |-> FALSE]
  ELSE IF timeToWait(lc, t) > 0
  THEN [queue |-> q,
        loop |-> [pc |-> "sleep", cur |-> 0, wakeAt |-> t + timeToWait(lc, t)],
        log |-> log, processing |-> TRUE]
  ELSE StartAction(q, t, log)

\* process() from its first statement to its first await or its return.
process(p, q, lc, t, log) ==
  IF processReturnsEarly(p, q)
  THEN [queue |-> q, loop |-> Returned, log |-> log, processing |-> p]
  ELSE Iterate(q, lc, t, log)

\* A promise returned by capture().  busy records whether the queue was
\* draining when the call was made.
Pending(busy) == [state |-> "pending", value |-> 0, busy |-> busy]

\* screenshotRateLimit.capture(), called d ms after the last event.
Capture(d) ==
  /\ Len(reqs) < MaxReq
  /\ LET r == Len(reqs) + 1
         t == now + d
         s == process(processing, push(queue, r), lastCapture, t, actionLog)
     IN /\ now' = t
        /\ reqs' = Append(reqs, Pending(processing))
        /\ queue' = s.queue
        /\ processing' = s.processing
        /\ loops' = Append(loops, s.loop)
        /\ actionLog' = s.log
  /\ UNCHANGED <<lastCapture, settleLog>>

\* The setTimeout of a sleeping loop fires, no earlier than it was set for.
TimerFires(a, d) ==
  /\ loops[a].pc = "sleep"
  /\ LET t == Max(now + d, loops[a].wakeAt)
         s == StartAction(queue, t, actionLog)
     IN /\ now' = t
        /\ queue' = s.queue
        /\ loops' = [loops EXCEPT ![a] = s.loop]
        /\ actionLog' = s.log
  /\ UNCHANGED <<processing, lastCapture, reqs, settleLog>>

\* The captureVisibleTab call of loop a resolves (ok) or rejects, after d ms.
CaptureSettles(a, ok, d) ==
  /\ loops[a].pc = "capture"
  /\ LET t == now + d
         r == loops[a].cur
         call == CHOOSE i \in 1..Len(actionLog) :
                   actionLog[i].req = r /\ actionLog[i].state = "running"
         lc == lastCaptureAfter(ok, lastCapture, t)
         log == [actionLog EXCEPT ![call].end = t,
                   ![call].state = IF ok THEN "resolved" ELSE "rejected"]
         s == Iterate(queue, lc, t, log)
     IN /\ now' = t
        /\ lastCapture' = lc
        /\ reqs' = [reqs EXCEPT ![r].state = settlement(ok, call).state,
                                ![r].value = settlement(ok, call).value]
        /\ settleLog' = Append(settleLog, r)
        /\ queue' = s.queue
        /\ processing' = s.processing
        /\ loops' = [loops EXCEPT ![a] = s.loop]
        /\ actionLog' = s.log

QueueInit ==
  /\ queue = <<>>
  /\ processing = FALSE
  /\ lastCapture = 0
  /\ now = StartTime
  /\ reqs = <<>>
  /\ loops = <<>>
  /\ actionLog = <<>>
  /\ settleLog = <<>>

EnvCapture == (\E d \in Delays : Capture(d)) /\ UNCHANGED mvars
EnvTimerFires ==
  /\ \E a \in 1..Len(loops) : \E d \in 0..MaxDelta : TimerFires(a, d)
  /\ UNCHANGED mvars
EnvCaptureSettles ==
  /\ \E a \in 1..Len(loops) : \E ok \in BOOLEAN : \E d \in Delays :
        CaptureSettles(a, ok, d)
  /\ UNCHANGED mvars

QueueNext == EnvCapture \/ EnvTimerFires \/ EnvCaptureSettles

\* runCaptureDiagnostics (the run_diagnostics command): its 'Visible
\* Screenshot' test calls chrome.tabs.captureVisibleTab itself, between two
\* events of the queue.  The call is logged with request 0: no capture()
\* stands behind it.
DiagnosticsScreenshot ==
  /\ Cardinality({i \in 1..Len(actionLog) : actionLog[i].req = 0}) < MaxDiagnostics
  /\ actionLog' = Append(actionLog, [req |-> 0, start |-> now, end |-> 0,
                                     state |-> "running"])
  /\ UNCHANGED <<queue, processing, lastCapture, now, reqs, loops, settleLog>>

\* the call of the diagnostics settles; the test logs the outcome
DiagnosticsScreenshotSettles(i, ok) ==
  /\ actionLog[i].req = 0
  /\ actionLog[i].state = "running"
  /\ actionLog' = [actionLog EXCEPT ![i].end = now,
                     ![i].state = IF ok THEN "resolved" ELSE "rejected"]
  /\ UNCHANGED <<queue, processing, lastCapture, now, reqs, loops, settleLog>>

\* the queue with its clients, whose calls, timers and replies come with no
\* delay or with the rate limit's, and the diagnostics next to it
ScreenshotNext ==
  \/ (\E d \in {0, minDelay} : Capture(d)) /\ UNCHANGED mvars
  \/ (\E a \in 1..Len(loops) : TimerFires(a, 0)) /\ UNCHANGED mvars
  \/ /\ \E a \in 1..Len(loops) : \E ok \in BOOLEAN : \E d \in {0, minDelay} :
          CaptureSettles(a, ok, d)
     /\ UNCHANGED mvars
  \/ DiagnosticsScreenshot /\ UNCHANGED mvars
  \/ /\ \E i \in 1..Len(actionLog) : \E ok \in BOOLEAN :
          DiagnosticsScreenshotSettles(i, ok)
     /\ UNCHANGED mvars

\* ------------------------------------------------------ the page monitor
\* The repository ships pageMonitor twice: part_006 (with the tab check, the
\* agent ping and the fallbacks) and part_005 (without them).
Impls == {"part_006", "part_005"}
TabIds == 1..MaxTabs
\* the heights an agent answers getPageDimensions with
Heights == {k * minScrollStep : k \in 1..MaxSteps}

\* startMonitoring(): `if (this.activePages.has(tabId)) return`
monitoredNever(ap, t) == FALSE
monitored(ap, t) == ap[t] # 0

\* startMonitoring(): the session object stored in activePages (url and
\* contentHash are never read by the monitor and are left out).  Three
\* fields are history: unconsumed says a height-change notification has
\* reached the session and no sweep has consumed it yet, noticed that one
\* has reached it during the sweep that is in flight, mutations that a
\* contentChanged notification has reached it.
newSession(t) ==
  [lastCapture |-> t, isRendering |-> FALSE, significantChanges |-> FALSE,
   unconsumed |-> FALSE, noticed |-> FALSE, mutations |-> FALSE]

\* renderPage(): `if (!page || page.isRendering) return false`
renderReturnsEarlyNoFlag(p, pgs) == p = 0
renderReturnsEarlyAnySweep(p, pgs) ==
  p = 0 \/ \E q \in 1..Len(pgs) : pgs[q].isRendering
renderReturnsEarly(p, pgs) == p = 0 \/ pgs[p].isRendering

\* renderPage(): the block after the settle wait,
\* `if (page.significantChanges) { significantChangesDetected = true;
\*  page.significantChanges = false; page.lastCapture = Date.now(); }`
settleCheckKeepsTime(pg, t) ==
  IF pg.significantChanges
  THEN [page |-> [pg EXCEPT !.significantChanges = FALSE, !.unconsumed = FALSE],
        result |-> "true"]
  ELSE [page |-> pg, result |-> "false"]
settleCheck(pg, t) ==
  IF pg.significantChanges
  THEN [page |-> [pg EXCEPT !.significantChanges = FALSE, !.unconsumed = FALSE,
                            !.lastCapture = t],
        result |-> "true"]
  ELSE [page |-> pg, result |-> "false"]

\* runtime.onMessage listener: the notifications that set significantChanges
setsFlagOnAnyNotification(action) ==
  action \in {"pageHeightChanged", "scrollPositionChanged"}
setsFlag(action) == action = "pageHeightChanged"

\* One run of the tabs.onUpdated listener and of the timer callback it
\* schedules.  pc is the await the run is suspended at; page, pos and height
\* are renderPage's `page`, `lastScrollPosition` and `pageHeight` (pos stays
\* at the position the sweep ended at, page at the session it swept, 0 when
\* renderPage returned at its guard); result is what renderPage returned and
\* files are the files captureWebsite downloaded.
NewFlow(t) ==
  [tab |-> t, pc |-> "settings", page |-> 0, pos |-> 0, height |-> 0,
   wakeAt |-> 0, result |-> "pending", files |-> {}, closedAt |-> "none"]

SweepPcs == {"tabGet", "ping", "reinject", "dims", "scroll", "scrollWait", "settle"}
Sweeping(fl) == fl.pc \in SweepPcs

\* Timers fire in the order of their deadlines.
HasTimer(fl) == fl.wakeAt > 0
TimerDue(f) ==
  /\ HasTimer(flows[f])
  /\ \A g \in 1..Len(flows) :
       HasTimer(flows[g]) => flows[f].wakeAt <= flows[g].wakeAt

\* The timer callback after `await pageMonitor.renderPage(tabId)`: on true
\* it awaits chrome.tabs.get, on false it logs, deletes the tab's
\* captureTimeouts entry and ends.
AfterRender(fl, r) ==
  [fl EXCEPT !.result = r, !.wakeAt = 0, !.height = 0,
             !.pc = IF r = "true" THEN "tabCheck" ELSE "done"]
TimeoutsAfter(fl, r) ==
  IF r = "true" THEN captureTimeouts
  ELSE [captureTimeouts EXCEPT ![fl.tab] = 0]

\* renderPage leaves through its finally block with result false.
SweepFailsKeepsFlag(f) ==
  /\ pages' = [pages EXCEPT ![flows[f].page].noticed = FALSE]
  /\ flows' = [flows EXCEPT ![f] = AfterRender(@, "false")]
  /\ captureTimeouts' = TimeoutsAfter(flows[f], "false")
SweepFailsClearsFlag(f) ==
  /\ pages' = [pages EXCEPT ![flows[f].page].isRendering = FALSE,
                             ![flows[f].page].noticed = FALSE,
                             ![flows[f].page].significantChanges = FALSE]
  /\ flows' = [flows EXCEPT ![f] = AfterRender(@, "false")]
  /\ captureTimeouts' = TimeoutsAfter(flows[f], "false")
SweepFails(f) ==
  /\ pages' = [pages EXCEPT ![flows[f].page].isRendering = FALSE,
                             ![flows[f].page].noticed = FALSE]
  /\ flows' = [flows EXCEPT ![f] = AfterRender(@, "false")]
  /\ captureTimeouts' = TimeoutsAfter(flows[f], "false")

\* renderPage's `while (lastScrollPosition < pageHeight)`: send the next
\* scrollTo, or start the settle wait at time t.
ScrollLoop(fl, t) ==
  IF fl.pos < fl.height
  THEN [fl EXCEPT !.pc = "scroll", !.wakeAt = 0]
  ELSE [fl EXCEPT !.pc = "settle", !.wakeAt = t + renderTimeout]

\* tabs.onUpdated fires for tab t with status complete and an http URL: the
\* listener asks storage for autoCaptureEnabled.
TabUpdated(t) ==
  /\ Len(flows) + faults < MaxEvents
  /\ flows' = Append(flows, NewFlow(t))
  /\ UNCHANGED <<now, qvars, impl, lib, cap, pages, activePages,
                 captureTimeouts, recentCaptures>>

\* The storage callback: return if auto capture is off; clear the tab's
\* stored timer; startMonitoring, which returns at once for a monitored tab
\* and otherwise stores a new session and awaits the script injection.
SettingsRead(f, enabled) ==
  /\ flows[f].pc = "settings"
  /\ LET t == flows[f].tab
         old == captureTimeouts[t]
         cleared == IF old # 0 /\ flows[old].pc = "debounce"
                    THEN [flows EXCEPT ![old].pc = "cancelled", ![old].wakeAt = 0]
                    ELSE flows
     IN IF ~enabled
        THEN /\ flows' = [flows EXCEPT ![f].pc = "done"]
             /\ UNCHANGED <<pages, activePages, captureTimeouts>>
        ELSE IF monitored(activePages, t)
        THEN /\ flows' = [cleared EXCEPT ![f].pc = "debounce",
                                         ![f].wakeAt = now + DebounceDelay]
             /\ captureTimeouts' = [captureTimeouts EXCEPT ![t] = f]
             /\ UNCHANGED <<pages, activePages>>
        ELSE /\ flows' = [cleared EXCEPT ![f].pc = "inject"]
             /\ pages' = Append(pages, newSession(now))
             /\ activePages' = [activePages EXCEPT ![t] = Len(pages) + 1]
             /\ captureTimeouts' = [captureTimeouts EXCEPT ![t] = 0]
  /\ UNCHANGED <<now, qvars, impl, lib, cap, recentCaptures>>

\* startMonitoring's executeScript settles (a failure is only logged); the
\* listener schedules the render check and stores its timer.
InjectSettles(f) ==
  /\ flows[f].pc = "inject"
  /\ flows' = [flows EXCEPT ![f].pc = "debounce", ![f].wakeAt = now + DebounceDelay]
  /\ captureTimeouts' = [captureTimeouts EXCEPT ![flows[f].tab] = f]
  /\ UNCHANGED <<now, qvars, impl, lib, cap, pages, activePages, recentCaptures>>

\* The render-check timer fires and calls renderPage(tabId).
DebounceFires(f) ==
  /\ flows[f].pc = "debounce"
  /\ TimerDue(f)
  /\ now' = Max(now, flows[f].wakeAt)
  /\ LET t == flows[f].tab
         p == activePages[t]
     IN IF renderReturnsEarly(p, pages)
        THEN /\ flows' = [flows EXCEPT ![f] = AfterRender(@, "false")]
             /\ captureTimeouts' = TimeoutsAfter(flows[f], "false")
             /\ UNCHANGED pages
        ELSE /\ pages' = [pages EXCEPT ![p].isRendering = TRUE]
             /\ flows' = [flows EXCEPT ![f].page = p, ![f].wakeAt = 0,
                  ![f].pc = IF impl = "part_006" THEN "tabGet" ELSE "dims"]
             /\ UNCHANGED captureTimeouts
  /\ UNCHANGED <<qvars, impl, lib, cap, activePages, recentCaptures>>

\* part_006: `await chrome.tabs.get(tabId)` settles: a rejection is caught,
\* a tab that is not complete makes renderPage return false.
TabGetSettles(f, status) ==
  /\ flows[f].pc = "tabGet"
  /\ IF status = "complete"
     THEN /\ flows' = [flows EXCEPT ![f].pc = "ping"]
          /\ UNCHANGED <<pages, captureTimeouts>>
     ELSE SweepFails(f)
  /\ UNCHANGED <<now, qvars, impl, lib, cap, activePages, recentCaptures>>

\* The getPageDimensions request is sent; part_006 races it against a timer.
AskDimensions(fl, t) ==
  [fl EXCEPT !.pc = "dims",
             !.wakeAt = IF impl = "part_006" THEN t + DimensionsTimeout ELSE 0]

\* part_006: the ping settles; on a rejection the content script is
\* injected again.
PingSettles(f, ok) ==
  /\ flows[f].pc = "ping"
  /\ flows' = [flows EXCEPT ![f] =
        IF ok THEN AskDimensions(@, now) ELSE [@ EXCEPT !.pc = "reinject"]]
  /\ UNCHANGED <<now, qvars, impl, lib, cap, pages, activePages,
                 captureTimeouts, recentCaptures>>

\* part_006: the re-injection settles; on a rejection renderPage returns
\* false.
ReinjectSettles(f, ok) ==
  /\ flows[f].pc = "reinject"
  /\ IF ok
     THEN /\ flows' = [flows EXCEPT ![f] = AskDimensions(@, now)]
          /\ UNCHANGED <<pages, captureTimeouts>>
     ELSE SweepFails(f)
  /\ UNCHANGED <<now, qvars, impl, lib, cap, activePages, recentCaptures>>

\* The getPageDimensions request is answered with height h, or fails
\* (h = -1): part_006 falls back to the default height, part_005 leaves
\* through its catch block.
DimensionsSettle(f, h) ==
  /\ flows[f].pc = "dims"
  /\ IF h >= 0
     THEN /\ flows' = [flows EXCEPT ![f] = ScrollLoop([@ EXCEPT !.height = h], now)]
          /\ UNCHANGED <<pages, captureTimeouts>>
     ELSE IF impl = "part_006"
     THEN /\ flows' = [flows EXCEPT ![f] =
               ScrollLoop([@ EXCEPT !.height = DefaultHeight], now)]
          /\ UNCHANGED <<pages, captureTimeouts>>
     ELSE SweepFails(f)
  /\ UNCHANGED <<now, qvars, impl, lib, cap, activePages, recentCaptures>>

\* part_006: the 5 s timer of the dimensions race fires first.
DimensionsTimeOut(f) ==
  /\ flows[f].pc = "dims"
  /\ TimerDue(f)
  /\ now' = Max(now, flows[f].wakeAt)
  /\ flows' = [flows EXCEPT ![f] =
        ScrollLoop([@ EXCEPT !.height = DefaultHeight], now')]
  /\ UNCHANGED <<qvars, impl, lib, cap, pages, activePages,
                 captureTimeouts, recentCaptures>>

\* The scrollTo message settles: part_006 logs a failure and goes on,
\* part_005 leaves through its catch block.  Then the scroll interval starts.
ScrollSettles(f, ok) ==
  /\ flows[f].pc = "scroll"
  /\ IF ok \/ impl = "part_006"
     THEN /\ flows' = [flows EXCEPT ![f].pc = "scrollWait",
                                    ![f].wakeAt = now + scrollInterval]
          /\ UNCHANGED <<pages, captureTimeouts>>
     ELSE SweepFails(f)
  /\ UNCHANGED <<now, qvars, impl, lib, cap, activePages, recentCaptures>>

\* The scroll interval is over: `lastScrollPosition += this.minScrollStep`
\* and the loop test.
ScrollWaitOver(f) ==
  /\ flows[f].pc = "scrollWait"
  /\ TimerDue(f)
  /\ now' = Max(now, flows[f].wakeAt)
  /\ flows' = [flows EXCEPT ![f] = ScrollLoop([@ EXCEPT !.pos = @ + minScrollStep], now')]
  /\ UNCHANGED <<qvars, impl, lib, cap, pages, activePages,
                 captureTimeouts, recentCaptures>>

\* The settle wait is over: the check of page.significantChanges, the finally
\* block and the return.
SettleOver(f) ==
  /\ flows[f].pc = "settle"
  /\ TimerDue(f)
  /\ now' = Max(now, flows[f].wakeAt)
  /\ LET p == flows[f].page
         c == settleCheck(pages[p], now')
     IN /\ pages' = [pages EXCEPT ![p] =
              [c.page EXCEPT !.isRendering = FALSE, !.noticed = FALSE]]
        /\ flows' = [flows EXCEPT ![f] = AfterRender(@, c.result)]
        /\ captureTimeouts' = TimeoutsAfter(flows[f], c.result)
  /\ UNCHANGED <<qvars, impl, lib, cap, activePages, recentCaptures>>

\* The timer callback's `await chrome.tabs.get(tabId)` after a true result:
\* an http URL starts captureWebsite, another URL skips the capture, a
\* rejection is caught and deletes the tab's session.
TabCheckSettles(f, status) ==
  /\ flows[f].pc = "tabCheck"
  /\ LET t == flows[f].tab
     IN IF status = "http"
        THEN /\ flows' = [flows EXCEPT ![f].pc = "capturing"]
             /\ UNCHANGED <<activePages, captureTimeouts>>
        ELSE /\ flows' = [flows EXCEPT ![f].pc = "done"]
             /\ captureTimeouts' = [captureTimeouts EXCEPT ![t] = 0]
             /\ activePages' = IF status = "error"
                               THEN [activePages EXCEPT ![t] = 0]
                               ELSE activePages
  /\ UNCHANGED <<now, qvars, impl, lib, cap, pages, recentCaptures>>

\* ------------------------------------------------------- captureWebsite
\* A configuration, as chrome.storage.sync.get returns it: the keys of
\* captureFormats that are true, captureScripts and captureNetworkRequests.
\* The first is the default of the call, the second a stored one.
DefaultConfig ==
  [formats |-> {"pdf", "html", "markdown", "screenshot"},
   captureScripts |-> TRUE, captureNetworkRequests |-> TRUE]
StoredConfig ==
  [formats |-> {"mhtml", "text", "readability"},
   captureScripts |-> FALSE, captureNetworkRequests |-> FALSE]
Configs == {DefaultConfig, StoredConfig}

\* the `captures` array, with script_data pushed when either flag is set
BaseCaptures ==
  <<"metadata", "screenshot_visible", "screenshot_full", "mhtml", "html",
    "text", "markdown", "readability">>
capturesAlwaysScriptData(c) == Append(BaseCaptures, "script_data")
captures(c) ==
  IF c.captureScripts \/ c.captureNetworkRequests
  THEN Append(BaseCaptures, "script_data")
  ELSE BaseCaptures
ScreenshotKinds == {"screenshot_visible", "screenshot_full"}

\* the filter that builds enabledCaptures
isEnabledMetadataOptIn(k, c) ==
  \/ k = "script_data"
  \/ (k \in ScreenshotKinds /\ "screenshot" \in c.formats)
  \/ k \in c.formats
isEnabled(k, c) ==
  \/ k \in {"metadata", "script_data"}
  \/ (k \in ScreenshotKinds /\ "screenshot" \in c.formats)
  \/ k \in c.formats
enabledCaptures(c) == SelectSeq(captures(c), LAMBDA k : isEnabled(k, c))

\* `capture.type === 'screenshot' ? data : await blobToDataUrl(data)`: the
\* data of a screenshot kind is the data URL string captureVisibleTab
\* returned, FileReader.readAsDataURL throws on a string, and no capture has
\* the type 'screenshot'.
convertible(k) == k = "screenshot" \/ k \notin ScreenshotKinds

\* capture.filename, without the time stamp
filename(k) == IF k = "metadata" THEN "metadata.json" ELSE k

\* What the environment does to one captureWebsite call: stop is the step
\* that ends it early ("gone": chrome.tabs.get rejects; "restricted": the
\* tab shows a chrome:// URL; "agent": ensureContentScript returns false;
\* "settings", "content": the await rejects; "storage": the write of the
\* record rejects), config the settings read and failed the kinds whose
\* capture operation or download rejects.  One kind of each sort can fail:
\* the metadata, a screenshot and a blob capture.
Stops == {"none", "gone", "restricted", "agent", "settings", "content", "storage"}
FailKinds == {"metadata", "screenshot_visible", "html"}
FailSets == {s \in SUBSET FailKinds : Cardinality(s) < MaxEvents}
CaptureEnvs ==
  {e \in [stop : Stops, config : Configs, failed : FailSets] :
     e.stop \notin {"none", "storage"} => (e.failed = {} /\ e.config = DefaultConfig)}

\* the external calls that fail, or find the tab changed, under e
FaultsOf(e) == Cardinality(e.failed) + (IF e.stop = "none" THEN 0 ELSE 1)

\* captureWebsite reaches its capture loop
RunsCaptures(e) == e.stop \in {"none", "storage"}

\* the files the loop `for (const capture of enabledCaptures)` downloads
filesWritten(e) ==
  {filename(enabledCaptures(e.config)[i]) : i \in
     {j \in 1..Len(enabledCaptures(e.config)) :
        /\ enabledCaptures(e.config)[j] \notin e.failed
        /\ convertible(enabledCaptures(e.config)[j])}}

\* captureRecord: title and url stand for the tab, timestamp is the time of
\* the call's end, formats the types of enabledCaptures
recordOf(t, c, time) ==
  [tab |-> t, timestamp |-> time, formats |-> enabledCaptures(c)]

\* `recentCaptures.unshift(captureRecord)` and the pop beyond the capacity
unshiftKeepsOneMore(log, rec) ==
  IF Len(log) + 1 > MAX_RECENT_CAPTURES + 1
  THEN SubSeq(<<rec>> \o log, 1, Len(log))
  ELSE <<rec>> \o log
unshift(log, rec) ==
  IF Len(log) + 1 > MAX_RECENT_CAPTURES
  THEN SubSeq(<<rec>> \o log, 1, Len(log))
  ELSE <<rec>> \o log

\* captureWebsite(tabId, currentTab.url) has run to its end under e, and the
\* timer callback deletes the tab's captureTimeouts entry.  A screenshot kind
\* whose captureVisibleTab call resolved has gone through the queue and left
\* its completion time in lastCapture.
CaptureWebsiteReturns(f, e) ==
  /\ flows[f].pc = "capturing"
  /\ flows' = [flows EXCEPT ![f].pc = "done",
        ![f].files = IF RunsCaptures(e) THEN filesWritten(e) ELSE {}]
  /\ recentCaptures' =
       IF RunsCaptures(e)
       THEN unshift(recentCaptures, recordOf(flows[f].tab, e.config, now))
       ELSE recentCaptures
  /\ lastCapture' =
       IF /\ RunsCaptures(e)
          /\ \E i \in 1..Len(enabledCaptures(e.config)) :
               /\ enabledCaptures(e.config)[i] \in ScreenshotKinds
               /\ enabledCaptures(e.config)[i] \notin e.failed
       THEN now ELSE lastCapture
  /\ captureTimeouts' = [captureTimeouts EXCEPT ![flows[f].tab] = 0]
  /\ UNCHANGED <<now, queue, processing, reqs, loops, actionLog, settleLog,
                 impl, lib, cap, pages, activePages>>

\* ------------------------------------------------- the other listeners
\* runtime.onMessage from the content script of tab t: nothing when the tab
\* has no session; pageHeightChanged sets the flag, scrollPositionChanged
\* stores the position in pageMonitor.scrollStates, a map that is written
\* here and in tabs.onRemoved and read nowhere (it is not part of the state
\* below), contentReady is acknowledged, and the switch has no case for
\* contentChanged, the message of the content script's mutation observer.
Notify(t, action) ==
  /\ LET p == activePages[t]
     IN /\ pages' = IF p # 0 /\ setsFlag(action)
                    THEN [pages EXCEPT ![p].significantChanges = TRUE,
                            ![p].unconsumed = (action = "pageHeightChanged") \/ @,
                            ![p].noticed =
                               (action = "pageHeightChanged" /\ pages[p].isRendering) \/ @,
                            ![p].mutations = (action = "contentChanged") \/ @]
                    ELSE IF p # 0 /\ action = "contentChanged"
                    THEN [pages EXCEPT ![p].mutations = TRUE]
                    ELSE pages
  /\ UNCHANGED <<now, qvars, impl, lib, cap, activePages, captureTimeouts, flows,
                 recentCaptures>>

\* Map.delete(tabId)
deletedNothing(map, t) == map
deleted(map, t) == [map EXCEPT ![t] = 0]

\* tabs.onRemoved for tab t: the listener deletes the tab's session and its
\* captureTimeouts entry; it clears no timer and touches no sweep.  closedAt
\* is history: where the timer callback of an update event stood when its
\* tab was closed.
TabRemoved(t) ==
  /\ activePages' = deleted(activePages, t)
  /\ captureTimeouts' = deleted(captureTimeouts, t)
  /\ flows' = [f \in 1..Len(flows) |->
        IF /\ flows[f].tab = t
           /\ flows[f].closedAt = "none"
           /\ flows[f].pc \notin {"done", "cancelled"}
        THEN [flows[f] EXCEPT !.closedAt = flows[f].pc]
        ELSE flows[f]]
  /\ UNCHANGED <<now, qvars, impl, lib, cap, pages, recentCaptures>>

MonitorInit ==
  /\ impl \in Impls
  /\ pages = <<>>
  /\ activePages = [t \in TabIds |-> 0]
  /\ captureTimeouts = [t \in TabIds |-> 0]
  /\ flows = <<>>
  /\ recentCaptures = <<>>
  /\ faults = 0

Flows == 1..Len(flows)

\* n more external calls fail or find the tab changed
Fault(n) == Len(flows) + faults + n <= MaxEvents /\ faults' = faults + n
Bad(b) == IF b THEN 1 ELSE 0

\* The calls of a timer callback whose tab has been closed: chrome.tabs.get
\* and chrome.tabs.sendMessage for a tab that is gone reject.  The closing
\* is what counts against the bound on failures, the rejections that follow
\* from it do not.
Gone(f) == flows[f].closedAt # "none"
Reached(f, answers, rejection) == IF Gone(f) THEN {rejection} ELSE answers
Rejected(f, n) == Fault(IF Gone(f) THEN 0 ELSE n)

MonitorNext ==
  \/ (\E t \in TabIds : TabUpdated(t)) /\ Fault(0)
  \/ (\E f \in Flows : \E enabled \in BOOLEAN : SettingsRead(f, enabled)) /\ Fault(0)
  \/ (\E f \in Flows : InjectSettles(f)) /\ Fault(0)
  \/ (\E f \in Flows : DebounceFires(f)) /\ Fault(0)
  \/ \E f \in Flows : \E status \in Reached(f, {"complete", "loading", "error"}, "error") :
       TabGetSettles(f, status) /\ Rejected(f, Bad(status # "complete"))
  \/ \E f \in Flows : \E ok \in Reached(f, BOOLEAN, FALSE) :
       PingSettles(f, ok) /\ Rejected(f, Bad(~ok))
  \/ \E f \in Flows : \E ok \in Reached(f, BOOLEAN, FALSE) :
       ReinjectSettles(f, ok) /\ Rejected(f, Bad(~ok))
  \/ \E f \in Flows : \E h \in Reached(f, Heights \cup {-1}, -1) :
       DimensionsSettle(f, h) /\ Rejected(f, Bad(h < 0))
  \/ (\E f \in Flows : DimensionsTimeOut(f) /\ ~Gone(f)) /\ Fault(1)
  \/ \E f \in Flows : \E ok \in Reached(f, BOOLEAN, FALSE) :
       ScrollSettles(f, ok) /\ Rejected(f, Bad(~ok))
  \/ (\E f \in Flows : ScrollWaitOver(f)) /\ Fault(0)
  \/ (\E f \in Flows : SettleOver(f)) /\ Fault(0)
  \/ \E f \in Flows : \E status \in Reached(f, {"http", "other", "error"}, "error") :
       TabCheckSettles(f, status) /\ Rejected(f, Bad(status # "http"))
  \/ \E f \in Flows : \E e \in CaptureEnvs :
       CaptureWebsiteReturns(f, e) /\ Fault(FaultsOf(e))
  \/ (\E t \in TabIds :
        \E action \in {"pageHeightChanged", "scrollPositionChanged", "contentReady"} :
          Notify(t, action)) /\ Fault(0)
  \/ (\E t \in TabIds : TabRemoved(t)) /\ Fault(1)

\* The sessions and every notification a content script sends: those of the
\* monitoring script and contentChanged.
NotifyNext ==
  \/ (\E t \in TabIds : TabUpdated(t)) /\ Fault(0)
  \/ (\E f \in Flows : \E enabled \in BOOLEAN : SettingsRead(f, enabled)) /\ Fault(0)
  \/ (\E f \in Flows : InjectSettles(f)) /\ Fault(0)
  \/ (\E f \in Flows : DebounceFires(f)) /\ Fault(0)
  \/ (\E t \in TabIds :
        \E action \in {"pageHeightChanged", "scrollPositionChanged",
                        "contentReady", "contentChanged"} :
          Notify(t, action)) /\ Fault(0)
  \/ (\E t \in TabIds : TabRemoved(t)) /\ Fault(0)

\* ------------------------------------------- captureWebsite, step by step
\* options.js holds captureWebsite three times: the method of
\* ContentScriptManager (with ensureContentScript as a method next to it) and,
\* twice and alike but for the logger, the function captureWebsite that
\* calls ensureContentScript of modules/utils.js.
CaptureImpls == {"ContentScriptManager", "captureWebsite"}

\* ensureContentScript (ContentScriptManager): the attempts, the timeout of a
\* ping, the wait after an injection and the unit of the backoff; the timeout
\* of the getContent request
MAX_ATTEMPTS == 3
PingTimeout == 1000
InitDelay == 500
BackoffUnit == 1000
ContentTimeout == 5000

\* `if (response === 'pong')`
acknowledgedAnyReply(r) == r \in {"pong", "other"}
acknowledged(r) == r = "pong"

\* `setTimeout(resolve, 1000 * attempt)`
backoffFlat(attempt) == BackoffUnit
backoff(attempt) == BackoffUnit * attempt

\* `if (attempt < MAX_ATTEMPTS)` in the catch block
retryLeftOneMore(attempt) == attempt <= MAX_ATTEMPTS
retryLeft(attempt) == attempt < MAX_ATTEMPTS

\* One call of captureWebsite.  pc is the await it is suspended at, url the
\* scheme of the URL chrome.tabs.get reported, attempt
\* the loop variable of ensureContentScript, ready what ensureContentScript
\* returned, config the settings read, idx the position of the loop over
\* enabledCaptures and end how the call ended.  The other fields are its
\* effects so far: the liveness probes and the script injections requested,
\* the notifications created, the getContent requests sent, the kinds whose
\* capture was started, those whose capture or download rejected, the files
\* downloaded, whether the record was put into recentCaptures and whether
\* captureComplete was sent; attempts is the log of ensureContentScript: for
\* each attempt its start, its end, the outcome of its first ping and the
\* way it ended; for the function it logs the one call of the
\* ensureContentScript of utils.js, which returns nothing: ready is then the
\* function's contentScriptLoaded.  lookups counts the chrome.tabs.get
\* calls, reply is the fate of the getContent request ("pending", "ok",
\* "error", "timeout", and "late" for an answer after the timeout), scripts
\* the script list the answer carried, as far as the callback has filled it
\* in, and message the fate of the captureComplete message ("sent",
\* "delivered", "rejected").
IdleCapture(v) ==
  [impl |-> v, pc |-> "idle", tab |-> 0, url |-> "", attempt |-> 0, wakeAt |-> 0,
   ready |-> "pending", config |-> DefaultConfig, idx |-> 0, end |-> "none",
   probes |-> 0, injections |-> 0, notifications |-> 0, requests |-> 0,
   tried |-> {}, failed |-> {}, files |-> {}, recorded |-> FALSE,
   completion |-> FALSE, attempts |-> <<>>,
   lookups |-> 0, reply |-> "none", scripts |-> <<>>, message |-> "none"]

\* the variables a capture call leaves alone
others == <<queue, processing, reqs, loops, actionLog, settleLog, impl, pages,
            activePages, captureTimeouts, flows, faults, lib>>

\* `tab.url.startsWith('chrome://') || tab.url.startsWith('chrome-extension://')`
Schemes == {"http://", "chrome://", "chrome-extension://"}
restrictedChromeOnly(u) == u = "chrome://"
restricted(u) == u \in {"chrome://", "chrome-extension://"}

\* the call ends: a return or the catch block of captureWebsite
EndsWithNotification(c, how) ==
  [c EXCEPT !.pc = "done", !.end = how, !.wakeAt = 0, !.notifications = @ + 1]
Ends(c, how) == [c EXCEPT !.pc = "done", !.end = how, !.wakeAt = 0]

\* the ping of an attempt is sent and raced against its timer
SendPing(c, t) ==
  [c EXCEPT !.pc = "ping", !.probes = @ + 1, !.wakeAt = t + PingTimeout]

\* the body of the for loop is entered
NewAttempt(c, t) ==
  SendPing([c EXCEPT !.attempt = @ + 1,
                     !.attempts = Append(@, [start |-> t, end |-> 0,
                                             ping |-> "sent", how |-> "running"])], t)

\* the running attempt is over
CloseAttempt(c, t, how) ==
  [c EXCEPT !.attempts[c.attempt].end = t, !.attempts[c.attempt].how = how]
FirstPing(c, r) == [c EXCEPT !.attempts[c.attempt].ping = r]

\* `getContent` is sent and raced against its timer
SendContentRequest(c, t) ==
  [c EXCEPT !.pc = "content", !.requests = @ + 1, !.reply = "pending",
            !.wakeAt = t + ContentTimeout]

\* ensureContentScript returns true: captureWebsite reads the settings
ReturnsTrue(c, t) ==
  [CloseAttempt(c, t, "pong") EXCEPT !.ready = "true", !.pc = "settings", !.wakeAt = 0]

\* ensureContentScript returns false: captureWebsite creates the
\* notification and returns
ReturnsFalse(c) ==
  [Ends(c, "notReady") EXCEPT !.ready = "false", !.notifications = @ + 1]

\* an await of the attempt rejects: the catch block, with its backoff
AttemptCaught(c, t, how) ==
  IF retryLeft(c.attempt)
  THEN [CloseAttempt(c, t, how) EXCEPT !.pc = "backoff",
                                       !.wakeAt = t + backoff(c.attempt)]
  ELSE ReturnsFalse(CloseAttempt(c, t, how))

\* the verification ping is answered with something else than 'pong':
\* nothing is thrown, the loop goes on with attempt++
AttemptFallsThrough(c, t) ==
  IF c.attempt + 1 <= MAX_ATTEMPTS
  THEN NewAttempt(CloseAttempt(c, t, "verifyOther"), t)
  ELSE ReturnsFalse(CloseAttempt(c, t, "verifyOther"))

\* chrome.scripting.executeScript({files: ['content.js']}) is called
SendInjection(c) == [c EXCEPT !.pc = "inject", !.injections = @ + 1, !.wakeAt = 0]

\* `await chrome.tabs.get(tabId)` is reached
SendLookup(c) == [c EXCEPT !.pc = "tabGet", !.lookups = @ + 1]

\* captureWebsite(tabId, url) is called: the method looks the tab up, the
\* function reads the settings first.
CaptureRequested(t) ==
  /\ cap.pc = "idle"
  /\ cap' = IF cap.impl = "ContentScriptManager"
            THEN SendLookup([cap EXCEPT !.tab = t])
            ELSE [cap EXCEPT !.tab = t, !.pc = "settings"]
  /\ UNCHANGED <<now, lastCapture, recentCaptures, others>>

\* chrome.tabs.get settles: a restricted URL ends the call, a rejection ends
\* it through a catch block; otherwise the method calls ensureContentScript,
\* which sends its first ping, and the function calls the one of utils.js,
\* which runs its check script.
TabLookupSettles(r) ==
  /\ cap.pc = "tabGet"
  /\ LET c == [cap EXCEPT !.url = r]
     IN cap' = CASE r = "error" -> Ends(cap, "aborted")
                 [] restricted(r) -> Ends(c, "skipped")
                 [] OTHER -> IF cap.impl = "ContentScriptManager"
                             THEN NewAttempt(c, now)
                             ELSE [NewAttempt(c, now) EXCEPT !.pc = "check",
                                                             !.wakeAt = 0]
  /\ UNCHANGED <<now, lastCapture, recentCaptures, others>>

\* the first ping of an attempt is answered or rejects before its timer
ProbeSettles(r) ==
  /\ cap.pc = "ping"
  /\ cap' = IF acknowledged(r)
            THEN ReturnsTrue(FirstPing(cap, r), now)
            ELSE SendInjection(FirstPing(cap, r))
  /\ UNCHANGED <<now, lastCapture, recentCaptures, others>>

\* the timer of the first ping fires first
ProbeTimesOut ==
  /\ cap.pc = "ping"
  /\ now' = cap.wakeAt
  /\ cap' = SendInjection(FirstPing(cap, "timeout"))
  /\ UNCHANGED <<lastCapture, recentCaptures, others>>

\* executeScript settles.  ContentScriptManager: a rejection is caught by the
\* attempt's catch block, otherwise the 500 ms wait starts.  utils.js: either
\* way ensureContentScript returns and captureWebsite sends getContent.
InjectionSettles(ok) ==
  /\ cap.pc = "inject"
  /\ cap' = IF cap.impl = "ContentScriptManager"
            THEN IF ok
                 THEN [cap EXCEPT !.pc = "injectWait", !.wakeAt = now + InitDelay]
                 ELSE AttemptCaught(cap, now, "inject")
            ELSE SendContentRequest(
                   [CloseAttempt(cap, now, IF ok THEN "injected" ELSE "inject")
                      EXCEPT !.ready = "true"], now)
  /\ UNCHANGED <<now, lastCapture, recentCaptures, others>>

\* the 500 ms are over: the verification ping is sent
InitWaitOver ==
  /\ cap.pc = "injectWait"
  /\ now' = cap.wakeAt
  /\ cap' = [cap EXCEPT !.pc = "verify", !.probes = @ + 1,
                        !.wakeAt = now' + PingTimeout]
  /\ UNCHANGED <<lastCapture, recentCaptures, others>>

\* the verification ping is answered or rejects before its timer
VerifySettles(r) ==
  /\ cap.pc = "verify"
  /\ cap' = CASE acknowledged(r) -> ReturnsTrue(cap, now)
              [] r = "error" -> AttemptCaught(cap, now, "verifyError")
              [] OTHER -> AttemptFallsThrough(cap, now)
  /\ UNCHANGED <<now, lastCapture, recentCaptures, others>>

\* the timer of the verification ping fires first
VerifyTimesOut ==
  /\ cap.pc = "verify"
  /\ now' = cap.wakeAt
  /\ cap' = AttemptCaught(cap, now', "verifyTimeout")
  /\ UNCHANGED <<lastCapture, recentCaptures, others>>

\* the backoff is over: the next attempt starts
BackoffOver ==
  /\ cap.pc = "backoff"
  /\ now' = cap.wakeAt
  /\ cap' = NewAttempt(cap, now')
  /\ UNCHANGED <<lastCapture, recentCaptures, others>>

\* utils.js: the check script settles; when it reports the content script or
\* rejects, ensureContentScript returns, otherwise it injects content.js.
\* It never throws, so the retry loop of the function ends in its first turn.
CheckSettles(r) ==
  /\ cap.pc = "check"
  /\ cap' = IF r = "absent"
            THEN SendInjection(FirstPing(cap, r))
            ELSE SendContentRequest(
                   [CloseAttempt(FirstPing(cap, r), now, r)
                      EXCEPT !.ready = "true"], now)
  /\ UNCHANGED <<now, lastCapture, recentCaptures, others>>

\* chrome.storage.sync.get settles with the configuration c or rejects.  The
\* method then sends getContent, the function looks the tab up.
SettingsSettle(ok, c) ==
  /\ cap.pc = "settings"
  /\ cap' = IF ~ok THEN Ends(cap, "aborted")
            ELSE IF cap.impl = "ContentScriptManager"
            THEN SendContentRequest([cap EXCEPT !.config = c], now)
            ELSE SendLookup([cap EXCEPT !.config = c])
  /\ UNCHANGED <<now, lastCapture, recentCaptures, others>>

\* The scripts of a page as the agent lists them: one loaded from a URL, one
\* written in the page, and one marked external that carries no URL.
PageScripts ==
  <<[type |-> "external", src |-> TRUE, content |-> "null"],
    [type |-> "inline", src |-> FALSE, content |-> "inline"],
    [type |-> "external", src |-> TRUE, content |-> "null"],
    [type |-> "external", src |-> FALSE, content |-> "null"]>>
ScriptLists(n) == {SubSeq(PageScripts, 1, k) : k \in 0..n}

\* `script.type === 'external' && script.src`
fetchable(script) == script.type = "external" /\ script.src

\* fetchScriptContent: the text of the script, or null when fetch or
\* response.text() rejects
fetchScriptContent(ok) == IF ok THEN "text" ELSE "null"

\* `script.content = fetchedContent !== null ? fetchedContent : '/* Fetch failed */'`
assignedAsFetched(fetched) == fetched
assigned(fetched) == IF fetched # "null" THEN fetched ELSE "/* Fetch failed */"

\* The loop over the scripts goes on from position i: it stops at the next
\* script to fetch; after the last one the callback resolves the promise,
\* the captures array is built and filtered and the loop over
\* enabledCaptures starts.
FetchFrom(c, i) ==
  IF \E k \in i..Len(c.scripts) : fetchable(c.scripts[k])
  THEN [c EXCEPT !.pc = "scripts",
                 !.idx = CHOOSE k \in i..Len(c.scripts) :
                           /\ fetchable(c.scripts[k])
                           /\ \A m \in i..(k - 1) : ~fetchable(c.scripts[m])]
  ELSE [c EXCEPT !.pc = "kinds", !.idx = 1]

\* The callback of the getContent request runs before the timer: it clears
\* the timer; with chrome.runtime.lastError set it rejects the promise, which
\* takes the call to its catch block; otherwise it goes through the scripts
\* of the answer when the settings ask for the scripts.
ContentSettles(ok, sl) ==
  /\ cap.pc = "content"
  /\ cap' = IF ~ok THEN [Ends(cap, "aborted") EXCEPT !.reply = "error"]
            ELSE FetchFrom([cap EXCEPT !.reply = "ok", !.wakeAt = 0,
                                       !.scripts = IF cap.config.captureScripts
                                                   THEN sl ELSE <<>>], 1)
  /\ UNCHANGED <<now, lastCapture, recentCaptures, others>>

\* the fetch of the script the loop is at settles
ScriptFetchSettles(ok) ==
  /\ cap.pc = "scripts"
  /\ cap' = FetchFrom(
              [cap EXCEPT !.scripts[cap.idx].content = assigned(fetchScriptContent(ok))],
              cap.idx + 1)
  /\ UNCHANGED <<now, lastCapture, recentCaptures, others>>

\* the 5 s timer of getContent fires first: the promise rejects
ContentTimesOut ==
  /\ cap.pc = "content"
  /\ now' = cap.wakeAt
  /\ cap' = [Ends(cap, "aborted") EXCEPT !.reply = "timeout"]
  /\ UNCHANGED <<lastCapture, recentCaptures, others>>

\* The callback runs after the timer has fired: resolve and reject of a
\* promise that is settled do nothing.
lateReplyResumes(c) == [c EXCEPT !.reply = "late", !.pc = "kinds", !.idx = 1]
lateReply(c) == [c EXCEPT !.reply = "late"]

\* The callback runs before the timer and the answer's metadata.scripts is
\* not a list of script objects (not iterable, or with a null entry): the
\* timer is cleared, the `for ... of` loop throws inside the async callback,
\* so neither resolve nor reject is called and the call stays at its await
\* of pageData.
ContentSettlesMalformed ==
  /\ cap.pc = "content"
  /\ cap.config.captureScripts
  /\ cap' = [cap EXCEPT !.reply = "malformed", !.wakeAt = 0, !.pc = "pageData"]
  /\ UNCHANGED <<now, lastCapture, recentCaptures, others>>

\* the agent answers getContent after the timeout
LateContentReply ==
  /\ cap.reply = "timeout"
  /\ cap' = lateReply(cap)
  /\ UNCHANGED <<now, lastCapture, recentCaptures, others>>

\* the kind the loop is at
CurrentKind(c) == enabledCaptures(c.config)[c.idx]

\* One turn of `for (const capture of enabledCaptures)`: the data is taken
\* or captured, converted and downloaded (ok), or one of these rejects and
\* the turn's catch block logs it.
TurnOver(c, ok) ==
  [c EXCEPT !.tried = @ \cup {CurrentKind(c)},
            !.failed = IF ok THEN @ ELSE @ \cup {CurrentKind(c)},
            !.files = IF ok /\ convertible(CurrentKind(c))
                      THEN @ \cup {filename(CurrentKind(c))} ELSE @]

\* the record of the call
captureRecord(c, t) == recordOf(c.tab, c.config, t)

\* A turn of the loop is over.  After the last turn the method builds the
\* record, puts it into recentCaptures and writes the log to storage; the
\* function reads `tab.title`, and `tab` is declared in the block of the tab
\* check, so a ReferenceError takes it to its catch block.
KindSettles(ok) ==
  /\ cap.pc = "kinds"
  /\ LET c == TurnOver(cap, ok)
         last == cap.idx = Len(enabledCaptures(cap.config))
     IN /\ cap' = IF ~last THEN [c EXCEPT !.idx = @ + 1]
                  ELSE IF cap.impl = "ContentScriptManager"
                  THEN [c EXCEPT !.pc = "storage", !.recorded = TRUE]
                  ELSE Ends(c, "aborted")
        /\ recentCaptures' =
             IF last /\ cap.impl = "ContentScriptManager"
             THEN unshift(recentCaptures, captureRecord(cap, now))
             ELSE recentCaptures
  /\ lastCapture' = IF ok /\ CurrentKind(cap) \in ScreenshotKinds
                    THEN now ELSE lastCapture
  /\ UNCHANGED <<now, others>>

\* chrome.storage.local.set settles: captureComplete is sent, or the
\* rejection goes to the catch block.
StorageSettles(ok) ==
  /\ cap.pc = "storage"
  /\ cap' = IF ok THEN [Ends(cap, "persisted") EXCEPT !.completion = TRUE,
                                                      !.message = "sent"]
            ELSE Ends(cap, "unsaved")
  /\ UNCHANGED <<now, lastCapture, recentCaptures, others>>

\* The promise of `chrome.runtime.sendMessage({action: 'captureComplete'})`
\* settles.  The call is not awaited and has no callback: when no popup is
\* open to receive the message the promise rejects and nothing handles it.
CompletionSettles(ok) ==
  /\ cap.message = "sent"
  /\ cap' = [cap EXCEPT !.message = IF ok THEN "delivered" ELSE "rejected"]
  /\ UNCHANGED <<now, lastCapture, recentCaptures, others>>

Replies == {"pong", "other", "error"}

\* a call with the pages that list at most one script
CaptureNext ==
  \/ \E t \in TabIds : CaptureRequested(t)
  \/ \E r \in Schemes \cup {"error"} : TabLookupSettles(r)
  \/ \E r \in Replies : ProbeSettles(r)
  \/ ProbeTimesOut
  \/ \E ok \in BOOLEAN : InjectionSettles(ok)
  \/ InitWaitOver
  \/ \E r \in Replies : VerifySettles(r)
  \/ VerifyTimesOut
  \/ BackoffOver
  \/ \E r \in {"present", "absent", "error"} : CheckSettles(r)
  \/ \E ok \in BOOLEAN : \E c \in Configs : SettingsSettle(ok, c)
  \/ \E ok \in BOOLEAN : \E sl \in ScriptLists(1) : ContentSettles(ok, sl)
  \/ \E ok \in BOOLEAN : ScriptFetchSettles(ok)
  \/ ContentTimesOut
  \/ LateContentReply
  \/ \E ok \in BOOLEAN : KindSettles(ok)
  \/ \E ok \in BOOLEAN : StorageSettles(ok)
  \/ \E ok \in BOOLEAN : CompletionSettles(ok)

\* a call with any answer to its getContent request
SettleNext == CaptureNext \/ ContentSettlesMalformed

\* captureWebsite of ContentScriptManager from its settings read on, with
\* the pages that list up to MaxScripts scripts
ContentNext ==
  \/ \E ok \in BOOLEAN : \E c \in Configs : SettingsSettle(ok, c)
  \/ \E ok \in BOOLEAN : \E sl \in ScriptLists(MaxScripts) : ContentSettles(ok, sl)
  \/ \E ok \in BOOLEAN : ScriptFetchSettles(ok)
  \/ ContentTimesOut
  \/ LateContentReply
  \/ \E ok \in BOOLEAN : KindSettles(ok)
  \/ \E ok \in BOOLEAN : StorageSettles(ok)
  \/ \E ok \in BOOLEAN : CompletionSettles(ok)

\* ------------------------------------------------ captures on request
\* The popup sends captureNow for the tab it shows, d ms after the last
\* request, and the listener's ContentScriptManager.captureWebsite call runs
\* to its end under e before the next request.
CaptureNow(d, e) ==
  /\ now + d <= StartTime + MaxCaptures * MaxDelta
  /\ now' = now + d
  /\ recentCaptures' =
       IF RunsCaptures(e)
       THEN unshift(recentCaptures, recordOf(1, e.config, now'))
       ELSE recentCaptures
  /\ lastCapture' =
       IF /\ RunsCaptures(e)
          /\ \E i \in 1..Len(enabledCaptures(e.config)) :
               /\ enabledCaptures(e.config)[i] \in ScreenshotKinds
               /\ enabledCaptures(e.config)[i] \notin e.failed
       THEN now' ELSE lastCapture
  /\ UNCHANGED <<cap, others>>

RecentNext == \E d \in 1..MaxDelta : \E e \in CaptureEnvs : CaptureNow(d, e)

\* The background script after it is loaded, with either pageMonitor source
\* and no capture requested.
\* ------------------------------------------------------ utility modules
\* Strings are sequences of characters.  `s.split(sep)`: the pieces between
\* the occurrences of sep, empty pieces included.
split(s, sep) ==
  LET at == {i \in 1..Len(s) : s[i] = sep}
      n == Cardinality(at)
      cut[k \in 0..(n + 1)] ==
        IF k = 0 THEN 0
        ELSE IF k = n + 1 THEN Len(s) + 1
        ELSE CHOOSE i \in at : Cardinality({j \in at : j < i}) = k - 1
  IN [k \in 1..(n + 1) |-> SubSeq(s, cut[k - 1] + 1, cut[k] - 1)]

\* `parts.join(sep)`
join(parts, sep) ==
  LET upTo[k \in 0..Len(parts)] ==
        IF k = 0 THEN <<>>
        ELSE IF k = 1 THEN parts[1]
        ELSE upTo[k - 1] \o <<sep>> \o parts[k]
  IN upTo[Len(parts)]

\* parseUrl(url), for the hostname, pathname and search that `new URL(url)`
\* gives: slice(-2) and slice(0, -2) of the hostname's labels, and the
\* pathname's pieces with the empty ones filtered out.
parseUrlMainIsLastLabel(u) ==
  LET domainParts == split(u.hostname, ".")
      n == Len(domainParts)
      truthy(x) == x # <<>>
  IN [domain |->
        [full |-> u.hostname,
         main |-> domainParts[n],
         sub |-> IF n > 2 THEN join(SubSeq(domainParts, 1, n - 2), ".") ELSE <<>>],
      path |-> SelectSeq(split(u.pathname, "/"), truthy),
      query |-> u.search]
parseUrl(u) ==
  LET domainParts == split(u.hostname, ".")
      n == Len(domainParts)
      truthy(x) == x # <<>>
  IN [domain |->
        [full |-> u.hostname,
         main |-> join(SubSeq(domainParts, Max(1, n - 1), n), "."),
         sub |-> IF n > 2 THEN join(SubSeq(domainParts, 1, n - 2), ".") ELSE <<>>],
      path |-> SelectSeq(split(u.pathname, "/"), truthy),
      query |-> u.search]

\* createFolderStructure(urlComponents): the folderPath
createFolderStructureSubFirst(c) ==
  LET truthy(x) == x # <<>>
  IN join(SelectSeq(<<<<"webData">>, c.domain.sub, c.domain.main>> \o c.path,
                    truthy), "/")
createFolderStructure(c) ==
  LET truthy(x) == x # <<>>
  IN join(SelectSeq(<<<<"webData">>, c.domain.main, c.domain.sub>> \o c.path,
                    truthy), "/")

\* the modules as loaded: no URL has been handed to parseUrl (step says how
\* far the URL has come: given, parsed, built), scriptCache is empty and
\* nothing is patched.  calls are the fetchScriptContent calls made so far,
\* events counts the calls, settlements and clearings, cleared holds the
\* counts at which the cache was cleared; installed is what window.fetch and
\* XMLHttpRequest.prototype.open were at the last start that patched them,
\* toggles counts the start and stop calls.
LibLoaded ==
  [step |-> "idle",
   url |-> [hostname |-> <<>>, pathname |-> <<>>, search |-> <<>>],
   components |-> [domain |-> [full |-> <<>>, main |-> <<>>, sub |-> <<>>],
                   path |-> <<>>, query |-> <<>>],
   folderPath |-> <<>>,
   scriptCache |-> [u \in {"u1", "u2"} |-> "none"],
   calls |-> <<>>, events |-> 0, cleared |-> {},
   isMonitoring |-> FALSE, originalFetch |-> "null", originalXHROpen |-> "null",
   fetch |-> "fetch", open |-> "open", networkRequests |-> 0,
   installed |-> [fetch |-> "null", open |-> "null"], toggles |-> 0]

\* the variables the utility modules leave alone
rest == <<now, qvars, impl, cap, pages, activePages, captureTimeouts, flows,
          recentCaptures, faults>>

\* `const urlComponents = parseUrl(url)`
ParseUrlCalled ==
  /\ lib.step = "given"
  /\ lib' = [lib EXCEPT !.components = parseUrl(lib.url), !.step = "parsed"]
  /\ UNCHANGED rest

\* `createFolderStructure(urlComponents, pageMetadata)`
FolderStructureCreated ==
  /\ lib.step = "parsed"
  /\ lib' = [lib EXCEPT !.folderPath = createFolderStructure(lib.components),
                        !.step = "built"]
  /\ UNCHANGED rest

UrlNext == ParseUrlCalled \/ FolderStructureCreated

\* fetchScriptContent(u) up to its first await: a cached URL returns its
\* content at once, another one is fetched.
FetcherCalled(u) ==
  /\ Len(lib.calls) < MaxCalls
  /\ lib' = [lib EXCEPT !.events = @ + 1,
        !.calls = Append(@,
          IF lib.scriptCache[u] # "none"
          THEN [url |-> u, pc |-> "returned", content |-> lib.scriptCache[u],
                fetched |-> FALSE, start |-> lib.events + 1, end |-> lib.events + 1]
          ELSE [url |-> u, pc |-> "fetching", content |-> "none",
                fetched |-> TRUE, start |-> lib.events + 1, end |-> 0])]
  /\ UNCHANGED rest

\* fetch and response.text() of call i settle: the text is cached and
\* returned, a rejection is caught and null returned.
FetcherSettles(i, text) ==
  /\ lib.calls[i].pc = "fetching"
  /\ lib' = [lib EXCEPT !.events = @ + 1,
        !.scriptCache[lib.calls[i].url] = IF text # "null" THEN text ELSE @,
        !.calls[i] = [@ EXCEPT !.pc = "returned", !.content = text,
                               !.end = lib.events + 1]]
  /\ UNCHANGED rest

\* scriptCache.clear()
CacheCleared ==
  /\ Cardinality(lib.cleared) < MaxClears
  /\ lib' = [lib EXCEPT !.events = @ + 1,
        !.cleared = @ \cup {lib.events + 1},
        !.scriptCache = [u \in DOMAIN @ |-> "none"]]
  /\ UNCHANGED rest

\* startNetworkMonitoring(): `if (isMonitoring) return`, then the requests
\* are cleared, the functions found are kept and the patched ones installed.
startNetworkMonitoringUnguarded(n) ==
  [n EXCEPT !.networkRequests = 0,
            !.originalFetch = n.fetch, !.originalXHROpen = n.open,
            !.fetch = "patchedFetch", !.open = "patchedXHROpen",
            !.isMonitoring = TRUE]
startNetworkMonitoring(n) ==
  IF n.isMonitoring THEN n
  ELSE [n EXCEPT !.networkRequests = 0,
                 !.originalFetch = n.fetch, !.originalXHROpen = n.open,
                 !.fetch = "patchedFetch", !.open = "patchedXHROpen",
                 !.isMonitoring = TRUE]

\* stopNetworkMonitoring(): `if (!isMonitoring) return`, then each function
\* that was kept is installed again and forgotten.
stopNetworkMonitoring(n) ==
  IF ~n.isMonitoring THEN n
  ELSE [n EXCEPT !.fetch = IF n.originalFetch # "null" THEN n.originalFetch ELSE @,
                 !.originalFetch = "null",
                 !.open = IF n.originalXHROpen # "null" THEN n.originalXHROpen ELSE @,
                 !.originalXHROpen = "null",
                 !.isMonitoring = FALSE]

\* the content script calls startNetworkMonitoring or stopNetworkMonitoring
NetworkToggled(call) ==
  /\ lib.toggles < MaxToggles
  /\ lib' = [(IF call = "start" THEN startNetworkMonitoring(lib)
                                ELSE stopNetworkMonitoring(lib))
               EXCEPT !.toggles = @ + 1,
                      !.installed = IF call = "start" /\ ~lib.isMonitoring
                                    THEN [fetch |-> lib.fetch, open |-> lib.open]
                                    ELSE @]
  /\ UNCHANGED rest

\* the page calls window.fetch while it is patchedFetch: the request is
\* pushed onto networkRequests when the original fetch has settled.
RequestLogged ==
  /\ lib.fetch = "patchedFetch"
  /\ lib.networkRequests < MaxCalls
  /\ lib' = [lib EXCEPT !.networkRequests = @ + 1]
  /\ UNCHANGED rest

NetworkNext ==
  \/ \E call \in {"start", "stop"} : NetworkToggled(call)
  \/ RequestLogged

FetcherNext ==
  \/ \E u \in DOMAIN lib.scriptCache : FetcherCalled(u)
  \/ \E i \in 1..Len(lib.calls) : \E text \in {"v1", "v2", "null"} :
       FetcherSettles(i, text)
  \/ CacheCleared

Loaded ==
  /\ QueueInit
  /\ MonitorInit
Init ==
  /\ Loaded
  /\ cap = IdleCapture("ContentScriptManager")
  /\ lib = LibLoaded
InitQueue ==
  /\ Init
  /\ impl = "part_006"
InitCapture ==
  /\ Loaded
  /\ impl = "part_006"
  /\ lib = LibLoaded
  /\ cap \in {IdleCapture(v) : v \in CaptureImpls}

\* captureWebsite of ContentScriptManager for an http tab, at the point
\* where ensureContentScript has returned true on its first ping
InitContent ==
  /\ Loaded
  /\ impl = "part_006"
  /\ lib = LibLoaded
  /\ \E t \in TabIds :
       cap = ReturnsTrue(
               FirstPing(
                 NewAttempt([SendLookup([IdleCapture("ContentScriptManager")
                                           EXCEPT !.tab = t])
                               EXCEPT !.url = "http://"], StartTime),
                 "pong"),
               StartTime)

\* A URL is handed to parseUrl: every hostname of up to MaxHostLen characters
\* that has a letter, every pathname of up to MaxPathLen characters after
\* its first '/', with and without a query.
InitUrl ==
  /\ Loaded
  /\ impl = "part_006"
  /\ cap = IdleCapture("ContentScriptManager")
  /\ \E h \in UNION {[1..k -> {"a", "b", "."}] : k \in 1..MaxHostLen} :
     \E p \in UNION {[1..k -> {"a", "b", "/"}] : k \in 0..MaxPathLen} :
     \E q \in {<<>>, <<"?", "x">>} :
       /\ \E i \in 1..Len(h) : h[i] # "."
       /\ lib = [LibLoaded EXCEPT !.step = "given", !.url =
                   [hostname |-> h, pathname |-> <<"/">> \o p, search |-> q]]

\* The content script is loaded into a page that has the browser's fetch and
\* XMLHttpRequest.prototype.open or has replaced them by its own.
InitNetwork ==
  /\ Loaded
  /\ impl = "part_006"
  /\ cap = IdleCapture("ContentScriptManager")
  /\ \E f \in {"fetch", "pageFetch"} : \E o \in {"open", "pageOpen"} :
       lib = [LibLoaded EXCEPT !.fetch = f, !.open = o]

\* The network monitor of the content script.
SpecNetwork == InitNetwork /\ [][NetworkNext]_vars

\* The script fetcher and its cache, called for two URLs.
SpecFetcher == InitQueue /\ [][FetcherNext]_vars

\* parseUrl and createFolderStructure applied to a URL.
SpecUrl == InitUrl /\ [][UrlNext]_vars

\* The content collection and the capture kinds of one call.
SpecContent == InitContent /\ [][ContentNext]_vars

\* Every caller of chrome.tabs.captureVisibleTab in the background script.
SpecScreenshots == InitQueue /\ [][ScreenshotNext]_vars

\* Captures requested from the popup, one after the other.
SpecRecent == InitQueue /\ [][RecentNext]_vars

\* One call of captureWebsite, of either kind, on its own.
SpecCapture == InitCapture /\ [][CaptureNext]_vars

\* One call of captureWebsite whose external calls all return or fail in
\* the end and whose timers fire.
FairSpecSettle == InitCapture /\ [][SettleNext]_vars /\ WF_vars(SettleNext)

\* The monitor and the auto-capture flow; the queue is idle between captures.
SpecMonitor == Init /\ [][MonitorNext]_vars

\* The sessions of the monitor and the notifications that reach them.
SpecNotify == Init /\ [][NotifyNext]_vars

\* The queue on its own: capture() is called by an arbitrary client.
SpecQueue == InitQueue /\ [][QueueNext]_vars

FairSpecQueue ==
  SpecQueue /\ WF_vars(EnvTimerFires) /\ WF_vars(EnvCaptureSettles)

\* ------------------------------------------------------ claims: the queue
Active(a) == loops[a].pc \in {"sleep", "capture"}
Idle == \A a \in 1..Len(loops) : ~Active(a)
Settled(r) == reqs[r].state # "pending"
Completed == {c \in 1..Len(actionLog) : actionLog[c].state # "running"}

\* C1: requests are numbered in call order; the i-th captureVisibleTab call
\* is made for request i and the i-th promise to settle is that of request i
\* (strict FIFO), also for calls made while the queue is draining.
C1_StrictFifo ==
  /\ \A i \in 1..Len(actionLog) : actionLog[i].req = i
  /\ \A i \in 1..Len(settleLog) : settleLog[i] = i

\* C1 witness: three requests were served, one of them enqueued while the
\* queue was draining.
C1_Witness ==
  /\ Len(settleLog) >= 3
  /\ \E r \in 1..Len(reqs) : reqs[r].busy

\* C2 (as claimed): the start times of two consecutive captureVisibleTab
\* calls differ by at least minDelay, whether the calls resolve or reject.
C2_MinDelayBetweenStarts ==
  \A i \in 1..(Len(actionLog) - 1) :
    actionLog[i + 1].start - actionLog[i].start >= minDelay

\* C3: a settled promise carries the outcome of the one call made for its own
\* request (resolved with that call's value, rejected with that call's
\* error), no request is executed twice, and once no loop is running the
\* queue is empty, processing is false and every request is settled.
C3_RejectionIsolated ==
  /\ \A r \in 1..Len(reqs) : Settled(r) =>
       /\ reqs[r].value \in 1..Len(actionLog)
       /\ actionLog[reqs[r].value].req = r
       /\ actionLog[reqs[r].value].state = reqs[r].state
  /\ \A c1, c2 \in 1..Len(actionLog) :
       actionLog[c1].req = actionLog[c2].req => c1 = c2
  /\ Idle => /\ queue = <<>>
             /\ ~processing
             /\ \A r \in 1..Len(reqs) : Settled(r)

\* C3 witness: three requests, the second rejected, the first and the third
\* resolved, and the queue idle again.
C3_Witness ==
  /\ Len(reqs) >= 3
  /\ reqs[1].state = "resolved"
  /\ reqs[2].state = "rejected"
  /\ reqs[3].state = "resolved"
  /\ Idle /\ queue = <<>> /\ ~processing

\* C4: at most one invocation of process() is inside the loop and at most
\* one captureVisibleTab call is outstanding.
C4_SingleLoop ==
  /\ Cardinality({a \in 1..Len(loops) : loops[a].pc # "returned"}) <= 1
  /\ Cardinality({c \in 1..Len(actionLog) : actionLog[c].state = "running"}) <= 1

\* C4 witness: capture() was called while a loop was awaiting its call, and
\* the process() invocation of that capture() returned at the guard.
C4_Witness ==
  \E a, b \in 1..Len(loops) :
    /\ a < b
    /\ loops[a].pc = "capture"
    /\ reqs[b].busy
    /\ loops[b].pc = "returned"
    /\ Len(queue) > 0

\* C5: capture() on an idle queue starts a loop, capture() on a draining
\* queue only appends; every request is eventually settled and the queue
\* eventually is empty with processing = false.
C5_NoEntryStranded ==
  /\ [][Len(reqs') = Len(reqs) + 1 =>
          IF processing
          THEN /\ queue' = Append(queue, Len(reqs'))
               /\ loops' = Append(loops, Returned)
               /\ processing'
          ELSE /\ processing'
               /\ loops'[Len(loops')].pc \in {"sleep", "capture"}]_vars
  /\ \A r \in 1..MaxReq :
       (Len(reqs) >= r) ~> (Len(reqs) >= r /\ Settled(r))
  /\ (processing \/ queue # <<>>) ~> (~processing /\ queue = <<>>)

\* C5 witness: a request enqueued while the queue was draining has been
\* settled and the queue is idle and empty.
C5_Witness ==
  /\ \E r \in 1..Len(reqs) : reqs[r].busy /\ Settled(r)
  /\ ~processing /\ queue = <<>>

\* C6 (as claimed): once a call has completed, lastCapture is the completion
\* time of the latest completed call, resolved or rejected.
C6_LastCaptureIsLastCompletion ==
  Completed # {} =>
    lastCapture = actionLog[CHOOSE c \in Completed :
                              \A e \in Completed : e <= c].end

\* ---------------------------------------------- claims: the page monitor
\* flow f's renderPage call returns in this step
RenderReturns(f) == flows[f].result = "pending" /\ flows'[f].result # "pending"
\* flow f's settle wait ends in this step
SettleEnds(f) == flows[f].pc = "settle" /\ flows'[f].pc # "settle"
\* flow f's render-check timer fires in this step
RenderCalled(f) ==
  flows[f].pc = "debounce" /\ flows'[f].pc \notin {"debounce", "cancelled"}

\* C7: a renderPage call made while the tab's session is rendering returns
\* false in the same step, takes no session, sends no scrollTo message and
\* leaves the sessions as they are; no session is ever swept by two calls at
\* a time.
C7_ReentrantRenderRefused ==
  /\ [](\A p \in 1..Len(pages) :
          Cardinality({f \in Flows : Sweeping(flows[f]) /\ flows[f].page = p}) <= 1)
  /\ [][\A f \in Flows :
          (/\ RenderCalled(f)
           /\ activePages[flows[f].tab] # 0
           /\ pages[activePages[flows[f].tab]].isRendering) =>
             /\ flows'[f].pc = "done"
             /\ flows'[f].result = "false"
             /\ flows'[f].page = 0
             /\ flows'[f].pos = 0
             /\ pages' = pages]_vars

\* C7 witness: a sweep that has scrolled is still in flight on the only
\* session the tab ever had, and a second renderPage call for the tab has
\* returned false at the guard meanwhile.
C7_Witness ==
  \E f, g \in Flows :
    /\ f # g
    /\ flows[f].tab = flows[g].tab
    /\ flows[f].pc \in {"scrollWait", "settle"}
    /\ Len(pages) = 1
    /\ activePages[flows[f].tab] = flows[f].page
    /\ pages[flows[f].page].isRendering
    /\ flows[g].pc = "done"
    /\ flows[g].result = "false"
    /\ flows[g].page = 0

\* C8: the step that ends the settle wait returns true, clears
\* significantChanges and sets lastCapture to the current time when the flag
\* is set, and returns false and leaves lastCapture alone when it is not.
C8_SettleCheck ==
  [][\A f \in Flows :
       SettleEnds(f) =>
         IF pages[flows[f].page].significantChanges
         THEN /\ flows'[f].result = "true"
              /\ ~pages'[flows[f].page].significantChanges
              /\ pages'[flows[f].page].lastCapture = now'
         ELSE /\ flows'[f].result = "false"
              /\ ~pages'[flows[f].page].significantChanges
              /\ pages'[flows[f].page].lastCapture
                   = pages[flows[f].page].lastCapture]_vars

\* C8 witness: one sweep has just ended its settle wait with true and its
\* session carries the time of that moment and a cleared flag; another sweep,
\* with no call failing, has ended with false.
C8_Witness ==
  \E f, g \in Flows :
    /\ flows[f].pc = "tabCheck" /\ flows[f].result = "true"
    /\ pages[flows[f].page].lastCapture = now
    /\ ~pages[flows[f].page].significantChanges
    /\ flows[g].pc = "done" /\ flows[g].result = "false" /\ flows[g].page # 0
    /\ faults = 0

LoopOver == cap.pc \in {"storage", "done"} /\ cap.tried # {}
\* the kinds the call's configuration enables
EnabledKinds ==
  {enabledCaptures(cap.config)[i] : i \in 1..Len(enabledCaptures(cap.config))}
\* the kinds the spec calls mandatory
Mandatory == {"metadata", "script_data"}

\* C11 (as claimed): once the loop is over every enabled kind has been
\* attempted and every enabled kind whose capture and download did not
\* reject has its file written, whatever kinds failed; when no mandatory
\* kind failed the record is in recentCaptures, and captureComplete is sent
\* unless the storage write rejects.
C11_FailureIsolated ==
  LoopOver =>
    /\ cap.tried = EnabledKinds
    /\ \A k \in EnabledKinds \ cap.failed : filename(k) \in cap.files
    /\ (cap.failed \cap Mandatory = {}) =>
         /\ cap.recorded
         /\ (cap.pc = "done" /\ cap.end # "unsaved") => cap.completion

C13_RecordListsSucceeded ==
  cap.recorded =>
    /\ cap.files = {filename(k) : k \in cap.tried \ cap.failed}
    /\ \A i \in 1..Len(recentCaptures[1].formats) :
         recentCaptures[1].formats[i] \in cap.tried \ cap.failed

\* ensureContentScript has ended without a content script it knows to answer:
\* the method returned false, or the one of utils.js caught a rejection of
\* its check or of its injection
AgentNotReady ==
  \/ cap.ready = "false"
  \/ /\ cap.impl = "captureWebsite"
     /\ cap.ready = "true"
     /\ cap.attempts[1].how \in {"inject", "error"}

\* C14 (as claimed): when the readiness of the agent failed, the call has
\* ended with one notification created, and it sent no getContent request,
\* ran no capture kind, wrote no file and appended no record.
C14_NotReadyAborts ==
  AgentNotReady =>
    /\ cap.end = "notReady"
    /\ cap.notifications = 1
    /\ cap.requests = 0
    /\ cap.tried = {}
    /\ cap.files = {}
    /\ ~cap.recorded
    /\ ~cap.completion

\* C15: a notification is created only by a call whose ensureContentScript
\* returned false, and then once; a call that skipped a restricted page, sent
\* its getContent request, ran a capture kind or reached the storage write
\* has created none.
C15_NotificationOnlyWhenNotReady ==
  /\ cap.notifications > 0 =>
       /\ cap.ready = "false"
       /\ cap.end = "notReady"
       /\ cap.notifications = 1
  /\ (\/ cap.end \in {"skipped", "aborted", "unsaved", "persisted"}
      \/ cap.requests > 0
      \/ cap.tried # {}) => cap.notifications = 0

\* a call has created its notification after the last attempt failed
C15_Witness ==
  /\ cap.notifications = 1
  /\ cap.ready = "false"
  /\ Len(cap.attempts) = MAX_ATTEMPTS

\* C16: a call for a tab that shows a chrome:// or chrome-extension:// URL
\* has ended as skipped, with no liveness probe, no injection, no getContent
\* request, no capture kind run, no file, no record, no completion message
\* and no notification.
C16_RestrictedSkippedSilently ==
  cap.url \in {"chrome://", "chrome-extension://"} =>
    /\ cap.pc = "done"
    /\ cap.end = "skipped"
    /\ cap.probes = 0
    /\ cap.injections = 0
    /\ cap.attempts = <<>>
    /\ cap.requests = 0
    /\ cap.tried = {}
    /\ cap.files = {}
    /\ ~cap.recorded
    /\ ~cap.completion
    /\ cap.notifications = 0
    /\ recentCaptures = <<>>

\* the function captureWebsite has skipped a chrome-extension:// page
C16_Witness ==
  /\ cap.impl = "captureWebsite"
  /\ cap.url = "chrome-extension://"
  /\ cap.end = "skipped"

\* ------------------------------------------- claims: ensureContentScript
\* C17: ensureContentScript has returned true with one attempt, one ping and
\* no executeScript call whenever the first ping of the first attempt was
\* answered with 'pong' before its timer; with any other reply, a rejection
\* or the timeout, executeScript was called.
C17_CheapPath ==
  (cap.impl = "ContentScriptManager" /\ cap.attempts # <<>>) =>
    /\ cap.attempts[1].ping = "pong" =>
         /\ cap.ready = "true"
         /\ Len(cap.attempts) = 1
         /\ cap.attempts[1].end = cap.attempts[1].start
         /\ cap.probes = 1
         /\ cap.injections = 0
    /\ cap.attempts[1].ping \in {"other", "error", "timeout"} =>
         cap.injections >= 1

\* the first ping was answered with 'pong' and the call went on to its loop
C17_Witness ==
  /\ cap.impl = "ContentScriptManager"
  /\ cap.pc = "kinds"
  /\ cap.attempts[1].ping = "pong"
  /\ cap.injections = 0

\* every ping of every attempt so far was rejected or ran into its timer (an
\* attempt whose injection was rejected sent no second ping)
NoPingAnswered ==
  \A k \in 1..Len(cap.attempts) :
    /\ cap.attempts[k].ping \in {"error", "timeout"}
    /\ cap.attempts[k].how \in {"inject", "verifyError", "verifyTimeout"}

C19_BackoffBetweenAttempts ==
  cap.impl = "ContentScriptManager" =>
    /\ Len(cap.attempts) <= 3
    /\ cap.pc \in {"ping", "inject", "injectWait", "verify", "backoff"} <=>
         (cap.attempts # <<>> /\ cap.ready = "pending")
    /\ \A k \in 1..(Len(cap.attempts) - 1) :
         cap.attempts[k + 1].start - cap.attempts[k].end = 1000 * k

\* ------------------------------------------- claims: the recent captures
\* C20: the log never holds more than MAX_RECENT_CAPTURES records and is
\* ordered from the newest to the oldest; a capture that completes puts its
\* record at the head, and when the log is full the record at the tail, the
\* oldest, is dropped and the others keep their order.
C20_BoundedNewestFirst ==
  /\ [](/\ Len(recentCaptures) <= 10
        /\ \A i \in 1..(Len(recentCaptures) - 1) :
             recentCaptures[i].timestamp > recentCaptures[i + 1].timestamp)
  /\ [][recentCaptures' # recentCaptures =>
          /\ recentCaptures'[1].timestamp = now'
          /\ IF Len(recentCaptures) = 10
             THEN Tail(recentCaptures') = SubSeq(recentCaptures, 1, 9)
             ELSE Tail(recentCaptures') = recentCaptures]_vars

\* the log is full and the record of the first capture has been dropped
C20_Witness ==
  /\ Len(recentCaptures) = 10
  /\ recentCaptures[10].timestamp > StartTime + MaxDelta

\* ------------------------------------------- claims: the content request
\* C21: the timer of a getContent request that is not answered fires
\* ContentTimeout = 5000 ms after the request was sent and ends the call; a
\* call whose request timed out has run no capture kind, written no file,
\* appended no record and sent no completion message, and an answer that
\* arrives later changes nothing but being noted.
C21_ContentTimeoutAborts ==
  /\ [](cap.reply \in {"timeout", "late"} =>
          /\ cap.pc = "done"
          /\ cap.end = "aborted"
          /\ cap.tried = {}
          /\ cap.files = {}
          /\ cap.scripts = <<>>
          /\ ~cap.recorded
          /\ ~cap.completion
          /\ cap.notifications = 0
          /\ recentCaptures = <<>>)
  /\ [][/\ (cap.reply = "pending" /\ cap'.reply = "timeout") => now' = now + 5000
        /\ (cap.reply = "pending" /\ cap'.reply \in {"ok", "error"}) =>
             now' < cap.wakeAt
        /\ cap.reply = "timeout" =>
             cap' = [cap EXCEPT !.reply = "late"]]_vars

\* the request timed out and the agent answered afterwards
C21_Witness == cap.reply = "late" /\ cap.requests = 1

\* C22: when the settings ask for the scripts and the callback has resolved
\* the request, every script of the answer that is external and has a URL
\* holds the fetched text or, when its fetch failed, the placeholder
\* '/* Fetch failed */', never null; the other scripts are as the agent sent
\* them; and whichever fetches failed, the call went on to its capture kinds.
C22_FetchFailurePlaceholder ==
  /\ [](cap.pc \in {"kinds", "storage"} =>
          /\ cap.reply = "ok"
          /\ \E n \in 0..MaxScripts :
               /\ Len(cap.scripts) = n
               /\ \A k \in 1..n :
                    IF PageScripts[k].type = "external" /\ PageScripts[k].src
                    THEN cap.scripts[k] \in
                           {[PageScripts[k] EXCEPT !.content = "text"],
                            [PageScripts[k] EXCEPT !.content = "/* Fetch failed */"]}
                    ELSE cap.scripts[k] = PageScripts[k])
  /\ [][cap.pc = "scripts" =>
          /\ cap'.pc \in {"scripts", "kinds"}
          /\ cap'.end = "none"
          /\ cap'.scripts[cap.idx].content \in {"text", "/* Fetch failed */"}
          /\ \A k \in 1..Len(cap.scripts) :
               k # cap.idx => cap'.scripts[k] = cap.scripts[k]]_vars

\* of two external scripts the first was fetched and the second failed, and
\* the capture kinds are running
C22_Witness ==
  /\ cap.pc = "kinds"
  /\ Len(cap.scripts) = 3
  /\ cap.scripts[1].content = "text"
  /\ cap.scripts[3].content = "/* Fetch failed */"

\* C23: a call looks its tab up at most once and sends at most one
\* getContent request; ensureContentScript makes at most three attempts, each
\* with at most one injection; every turn of the loop over the capture kinds
\* takes a kind no turn has taken and the next turn takes the next kind,
\* whether the turn failed or not; and once the tab lookup, the getContent
\* request or the storage write has settled, it is not made again.
C23_OnlyReadinessRetried ==
  /\ [](/\ cap.lookups <= 1
        /\ cap.requests <= 1
        /\ Len(cap.attempts) <= 3
        /\ cap.injections <= Len(cap.attempts)
        /\ cap.probes <= 2 * Len(cap.attempts))
  /\ [][/\ cap.pc = "kinds" =>
             /\ CurrentKind(cap) \notin cap.tried
             /\ cap'.tried = cap.tried \cup {CurrentKind(cap)}
             /\ cap'.pc = "kinds" => cap'.idx = cap.idx + 1
        /\ cap.pc \in {"tabGet", "content", "storage"} =>
             /\ cap'.pc # cap.pc
             /\ cap'.lookups = cap.lookups
             /\ cap'.requests = cap.requests
        /\ cap.pc = "done" => cap'.pc = "done"]_vars

\* the third attempt made the agent ready and a capture kind failed in the
\* loop that followed
C23_Witness ==
  /\ LoopOver
  /\ Len(cap.attempts) = 3
  /\ cap.failed # {}
  /\ cap.lookups = 1
  /\ cap.requests = 1

\* C24 (as claimed): a call of captureWebsite that has ended has returned,
\* whichever of its external calls failed, and has left no promise whose
\* rejection nothing handles.
C24_NoErrorEscapes ==
  /\ cap.end # "none" <=> cap.pc = "done"
  /\ cap.message # "rejected"

\* ------------------------------------------- claims: all screenshot calls
\* C25 (as claimed): every chrome.tabs.captureVisibleTab call is made by the
\* queue for one of its requests, at most one call is outstanding at any
\* time, and a call starts no sooner than minDelay after the call before it
\* ended.
C25_AllScreenshotsQueued ==
  /\ \A i \in 1..Len(actionLog) : actionLog[i].req # 0
  /\ Cardinality({i \in 1..Len(actionLog) : actionLog[i].state = "running"}) <= 1
  /\ \A i \in 1..(Len(actionLog) - 1) :
       /\ actionLog[i].state # "running"
       /\ actionLog[i + 1].start >= actionLog[i].end + minDelay


\* C26: startMonitoring for a tab that already has a session is a no-op: the
\* listener's step that calls it leaves every session and the tracking map
\* as they were and goes on to the debounce timer without injecting the
\* monitoring script; and no two tabs ever share a session.
C26_ExistingSessionKept ==
  /\ [](\A t1, t2 \in TabIds :
          activePages[t1] # 0 /\ t1 # t2 => activePages[t1] # activePages[t2])
  /\ [][\A f \in Flows :
          /\ flows[f].pc = "settings"
          /\ flows'[f].pc \notin {"settings", "done"}
          /\ activePages[flows[f].tab] # 0
          => /\ pages' = pages
             /\ activePages' = activePages
             /\ flows'[f].pc = "debounce"]_vars

\* a second update event of a monitored tab has cancelled the first one's
\* timer and set its own, and the tab still has its first session
C26_Witness ==
  \E f, g \in Flows :
    /\ f # g
    /\ flows[f].tab = flows[g].tab
    /\ flows[f].pc = "cancelled"
    /\ flows[g].pc = "debounce"
    /\ Len(pages) = 1
    /\ activePages[flows[g].tab] = 1


\* C27: a mutation or height-change notification that reaches the session of
\* a monitored tab sets the session's significantChanges flag, and the step
\* that takes it starts no sweep and no capture (no render check is created
\* or moved, no debounce timer is set).
C27_NotificationSetsFlag ==
  [][\A p \in 1..Len(pages) :
       \/ pages'[p].unconsumed /\ ~pages[p].unconsumed
       \/ pages'[p].mutations /\ ~pages[p].mutations
       => /\ pages'[p].significantChanges
          /\ flows' = flows
          /\ captureTimeouts' = captureTimeouts
          /\ cap' = cap]_vars


\* C28: when the scrollTo message of a sweep settles, acknowledged or
\* failed, the sweep is not aborted: it goes on to the scroll interval (and
\* from there to the next position or the settle wait) with the session
\* still marked as rendering.
C28_ScrollFailureSkipped ==
  [][\A f \in Flows :
       flows[f].pc = "scroll" /\ flows'[f] # flows[f]
       => /\ flows'[f].pc = "scrollWait"
          /\ pages'[flows[f].page].isRendering]_vars

\* C29: when the height probe of a sweep settles, answered, failed or timed
\* out, the sweep goes on to the scroll steps with the height of the answer
\* or with the default 5000, the session still marked as rendering.
C29_HeightFallback ==
  [][\A f \in Flows :
       flows[f].pc = "dims" /\ flows'[f] # flows[f]
       => /\ flows'[f].pc = "scroll"
          /\ flows'[f].height \in Heights \cup {DefaultHeight}
          /\ pages'[flows[f].page].isRendering]_vars


\* C30: once a tab is closed, the session a sweep was running on is tracked
\* no more; the sweep that was in flight at the closing ends with true or
\* false and its callback never calls captureWebsite and writes no file;
\* and a renderPage call for a tab without session returns false in its
\* first step, with no session touched and no scroll message sent.
C30_ClosedTabDiscarded ==
  /\ [](\A f \in Flows :
          flows[f].closedAt \in SweepPcs
          => /\ activePages[flows[f].tab] # flows[f].page
             /\ flows[f].pc # "capturing"
             /\ flows[f].files = {}
             /\ flows[f].pc = "done" => flows[f].result \in {"true", "false"})
  /\ [][\A f \in Flows :
          /\ flows[f].pc = "debounce"
          /\ flows'[f].pc \notin {"debounce", "cancelled"}
          /\ activePages[flows[f].tab] = 0
          => /\ flows'[f].pc = "done"
             /\ flows'[f].result = "false"
             /\ pages' = pages]_vars

\* a sweep that was in flight when its tab was closed has returned true and
\* its callback has ended
C30_Witness ==
  \E f \in Flows :
    /\ flows[f].closedAt \in SweepPcs
    /\ flows[f].pc = "done"
    /\ flows[f].result = "true"


\* C31: sweeps of different tabs are independent: a renderPage call for a
\* tab whose own session is not rendering starts its sweep whatever the
\* other sessions are doing, a step changes at most one session, and a step
\* of a timer callback changes no session but the one of its own sweep.
C31_SweepsIndependent ==
  [][/\ \A f \in Flows :
          /\ flows[f].pc = "debounce"
          /\ flows'[f].pc \notin {"debounce", "cancelled"}
          /\ activePages[flows[f].tab] # 0
          /\ ~pages[activePages[flows[f].tab]].isRendering
          => /\ Sweeping(flows'[f])
             /\ flows'[f].page = activePages[flows[f].tab]
             /\ pages'[flows'[f].page].isRendering
     /\ Cardinality({p \in 1..Len(pages) : pages'[p] # pages[p]}) <= 1
     /\ \A p \in 1..Len(pages) : \A f \in Flows :
          pages'[p] # pages[p] /\ flows'[f] # flows[f]
          => flows'[f].page = p]_vars

\* the sessions of two tabs are being swept at the same time
C31_Witness ==
  \E f, g \in Flows :
    /\ flows[f].tab # flows[g].tab
    /\ Sweeping(flows[f]) /\ Sweeping(flows[g])
    /\ flows[f].page # flows[g].page
    /\ pages[flows[f].page].isRendering /\ pages[flows[g].page].isRendering


\* C32: parseUrl gives domain.main = the hostname from its second-last dot
\* on (the whole hostname when it has fewer than two dots), domain.sub = the
\* hostname before that dot (empty when there is none), path = the runs of
\* characters between the slashes of the pathname, in order and none empty,
\* and query = the search string as the URL has it.
C32_ParseUrl ==
  lib.step \in {"parsed", "built"} =>
    LET h == lib.url.hostname
        p == lib.url.pathname
        c == lib.components
        dots == {i \in 1..Len(h) : h[i] = "."}
        cutAt == IF Cardinality(dots) < 2 THEN 0
                 ELSE CHOOSE i \in dots : Cardinality({j \in dots : j > i}) = 1
        starts == {i \in 1..Len(p) : p[i] # "/" /\ (i = 1 \/ p[i - 1] = "/")}
        letter(x) == x # "/"
    IN      /\ c.domain.main = SubSeq(h, cutAt + 1, Len(h))
            /\ c.domain.sub = SubSeq(h, 1, cutAt - 1)
            /\ Len(c.path) = Cardinality(starts)
            /\ \A k \in 1..Len(c.path) :
                 /\ c.path[k] # <<>>
                 /\ \A i \in 1..Len(c.path[k]) : c.path[k][i] # "/"
            /\ SelectSeq(join(c.path, "/"), letter) = SelectSeq(p, letter)
            /\ c.query = lib.url.search

\* shop.example.com/a/b?x=1 in small: a.b.a, /a/b and ?x have been parsed
C32_Witness ==
  /\ lib.step = "parsed"
  /\ lib.url.hostname = <<"a", ".", "b", ".", "a">>
  /\ lib.url.pathname = <<"/", "a", "/", "b">>
  /\ lib.components.domain.main = <<"b", ".", "a">>
  /\ lib.components.domain.sub = <<"a">>
  /\ lib.components.path = <<<<"a">>, <<"b">>>>
  /\ lib.components.query = <<"?", "x">>


\* C33: the folder path is webData, domain.main, domain.sub when it is not
\* empty, and the path segments, in this order, separated by single slashes
\* and with no empty piece.
C33_FolderPath ==
  lib.step = "built" =>
    LET c == lib.components
        pieces == split(lib.folderPath, "/")
        k == IF c.domain.sub # <<>> THEN 3 ELSE 2
    IN /\ Len(pieces) = k + Len(c.path)
       /\ pieces[1] = <<"webData">>
       /\ pieces[2] = c.domain.main
       /\ c.domain.sub # <<>> => pieces[3] = c.domain.sub
       /\ \A i \in 1..Len(c.path) : pieces[k + i] = c.path[i]
       /\ \A i \in 1..Len(pieces) : pieces[i] # <<>>

\* webData/example.com/shop/a/b in small: webData/b.a/a/a/b
C33_Witness ==
  /\ lib.step = "built"
  /\ lib.url.hostname = <<"a", ".", "b", ".", "a">>
  /\ lib.url.pathname = <<"/", "a", "/", "b">>
  /\ lib.folderPath =
       <<"webData", "/", "b", ".", "a", "/", "a", "/", "a", "/", "b">>


\* C34: a URL is fetched only when it is not in the cache; a call made after
\* a fetch of its URL has succeeded, with no clearing of the cache in
\* between, fetches nothing and returns the content of that fetch; a fetch
\* that fails returns null and leaves the cache as it was.
C34_CachedFetch ==
  /\ [](\A i, j \in 1..Len(lib.calls) :
          /\ lib.calls[i].url = lib.calls[j].url
          /\ lib.calls[i].fetched
          /\ lib.calls[i].pc = "returned"
          /\ lib.calls[i].content # "null"
          /\ lib.calls[j].pc = "returned"
          /\ lib.calls[i].end < lib.calls[j].start
          /\ \A c \in lib.cleared :
               ~(lib.calls[i].end < c /\ c < lib.calls[j].start)
          => /\ ~lib.calls[j].fetched
             /\ lib.calls[j].content = lib.calls[i].content)
  /\ [][/\ Len(lib.calls') > Len(lib.calls) /\ lib.calls'[Len(lib.calls')].fetched
           => lib.scriptCache[lib.calls'[Len(lib.calls')].url] = "none"
        /\ \A i \in 1..Len(lib.calls) :
             lib.calls[i].pc = "fetching" /\ lib.calls'[i].content = "null"
             => lib.scriptCache' = lib.scriptCache]_vars


\* C35: a start while monitoring and a stop while not monitoring change
\* nothing of the monitor; after a start window.fetch and XHR open are the
\* patched functions, and they stay so while monitoring; the stop that ends
\* the monitoring installs again what was installed before the start that
\* began it.
C35_PatchAndRestore ==
  /\ [](lib.isMonitoring =>
          lib.fetch = "patchedFetch" /\ lib.open = "patchedXHROpen")
  /\ [][/\ lib.toggles' # lib.toggles /\ lib.isMonitoring' = lib.isMonitoring
           => lib' = [lib EXCEPT !.toggles = @ + 1]
        /\ lib.isMonitoring /\ ~lib.isMonitoring'
           => /\ lib.fetch' = lib.installed.fetch
              /\ lib.open' = lib.installed.open
              /\ lib.fetch' \notin {"patchedFetch", "null"}
              /\ lib.open' \notin {"patchedXHROpen", "null"}]_vars

\* start, start, stop, stop on a page with its own fetch: its functions are
\* back and a request was logged in between
C35_Witness ==
  /\ lib.toggles = 4
  /\ ~lib.isMonitoring
  /\ lib.installed = [fetch |-> "pageFetch", open |-> "open"]
  /\ lib.fetch = "pageFetch" /\ lib.open = "open"
  /\ lib.networkRequests > 0


\* C36 (as claimed): the steps of a capture call occur in the order tab
\* validation, agent readiness, content collection, capture execution,
\* record append, completion notification: a probe or injection is requested
\* only for a tab that was looked up and is not restricted, the getContent
\* request is sent only after the readiness of the agent succeeded, no kind
\* is captured and no file written before the content is collected with its
\* scripts, and the record is appended and captureComplete sent only after
\* every enabled kind had its turn.
C36_StepOrder ==
  /\ cap.probes + cap.injections > 0 =>
       cap.lookups > 0 /\ cap.url \in Schemes /\ ~restricted(cap.url)
  /\ cap.requests > 0 =>
       /\ cap.probes + cap.injections > 0
       /\ cap.ready = "true"
       /\ ~AgentNotReady
  /\ cap.tried # {} \/ cap.files # {} =>
       /\ cap.requests > 0
       /\ cap.reply = "ok"
       /\ cap.pc \notin {"content", "scripts"}
  /\ cap.recorded \/ cap.completion =>
       /\ cap.tried = {enabledCaptures(cap.config)[i] :
                         i \in 1..Len(enabledCaptures(cap.config))}
       /\ cap.pc \notin {"kinds"}
  /\ cap.completion => cap.recorded


\* C37 (as claimed): for every tab at most one render-check timer is pending
\* at any time, and the tab's captureTimeouts entry is that timer.
C37_OneTimerPerTab ==
  \A f, g \in 1..Len(flows) :
    /\ flows[f].pc = "debounce"
    /\ flows[g].pc = "debounce"
    /\ flows[f].tab = flows[g].tab
    => f = g /\ captureTimeouts[flows[f].tab] = f


\* C38: a session's isRendering is true exactly while one renderPage sweep
\* is in flight for it, and the step in which a renderPage call that took
\* the session returns, by whichever path, leaves it false.
C38_RenderingFlagTracksSweep ==
  /\ [](\A p \in 1..Len(pages) :
          pages[p].isRendering <=>
            Cardinality({f \in Flows : Sweeping(flows[f]) /\ flows[f].page = p}) = 1)
  /\ [][\A f \in Flows :
          RenderReturns(f) /\ flows[f].page # 0 =>
            ~pages'[flows[f].page].isRendering]_vars

\* C38 witness: a sweep that had taken the tab's session has failed at one
\* of its calls and returned false, and the session's flag is clear again.
C38_Witness ==
  \E f \in Flows :
    /\ flows[f].pc = "done"
    /\ flows[f].result = "false"
    /\ flows[f].page # 0
    /\ activePages[flows[f].tab] = flows[f].page
    /\ faults > 0
    /\ ~pages[flows[f].page].isRendering


\* C39: a step that resets the significantChanges flag of a session is the
\* return of a renderPage call on that session with true; a renderPage call
\* that returns false (at its guard, for a tab not ready, after a failed
\* injection or an exception) leaves the flag of every session as it was;
\* and a sweep that reaches its check with the flag set returns true.
C39_FlagResetOnlyByTrue ==
  [][/\ \A p \in 1..Len(pages) :
          pages[p].significantChanges /\ ~pages'[p].significantChanges =>
            \E f \in Flows : /\ RenderReturns(f)
                             /\ flows[f].page = p
                             /\ flows'[f].result = "true"
     /\ \A f \in Flows :
          RenderReturns(f) /\ flows'[f].result = "false" =>
            \A p \in 1..Len(pages) :
              pages'[p].significantChanges = pages[p].significantChanges
     /\ \A f \in Flows :
          SettleEnds(f) /\ pages[flows[f].page].significantChanges =>
            flows'[f].result = "true"]_vars

\* C39 witness: a height change was notified to the session, the sweep that
\* had taken it failed at one of its calls and returned false, and the flag
\* is still set.
C39_Witness ==
  \E f \in Flows :
    /\ flows[f].pc = "done"
    /\ flows[f].result = "false"
    /\ flows[f].page # 0
    /\ faults > 0
    /\ pages[flows[f].page].significantChanges
    /\ ~pages[flows[f].page].isRendering


\* C40 (as claimed): when every external call returns or fails in the end
\* and every timer fires, a captureWebsite call that was made ends, whatever
\* the answer to its getContent request carries and whenever it arrives.
C40_EveryCaptureSettles == (cap.pc # "idle") ~> (cap.pc = "done")

====
